---- MODULE Spec2Model ----
(***************************************************************************)
(* Deployment orchestration and verification engine of multi_container:    *)
(* the Deploy, Rollback and HealthMonitor workflows                        *)
(* (temporal/workflows.py), the activities they call                       *)
(* (temporal/activities.py) and the tools behind the activities            *)
(* (tools/compose_tools.py, tools/monitoring_tools.py,                     *)
(* tools/testing_tools.py, tools/docker_tools.py).                         *)
(*                                                                         *)
(* A Python str is modelled as a sequence of one-character strings, so     *)
(* that `in`, upper(), lower(), slicing and split() are computed, not      *)
(* assumed.  A character outside ASCII is written "U+XXXX".  The container *)
(* runtime is external: the result of every command (exit status, stdout,  *)
(* stderr) is an input drawn from a small set of samples.                  *)
(***************************************************************************)
EXTENDS Naturals, Integers, Sequences, FiniteSets, TLC

(***************************************************************************)
(* Bounds of the model.                                                    *)
(***************************************************************************)
\* The health monitor loop is explored for this many iterations
\* (max_checks caps it in the code).
MaxChecks == 8

(***************************************************************************)
(* Python str operations.                                                  *)
(***************************************************************************)
Min(a, b) == IF a < b THEN a ELSE b

ToUpper ==
  [c \in {"a","b","c","d","e","f","g","h","i","j","k","l","m","n","o","p","q","r","s","t","u","v","w","x","y","z"} |->
     CASE c = "a" -> "A" [] c = "b" -> "B" [] c = "c" -> "C" [] c = "d" -> "D"
       [] c = "e" -> "E" [] c = "f" -> "F" [] c = "g" -> "G" [] c = "h" -> "H"
       [] c = "i" -> "I" [] c = "j" -> "J" [] c = "k" -> "K" [] c = "l" -> "L"
       [] c = "m" -> "M" [] c = "n" -> "N" [] c = "o" -> "O" [] c = "p" -> "P"
       [] c = "q" -> "Q" [] c = "r" -> "R" [] c = "s" -> "S" [] c = "t" -> "T"
       [] c = "u" -> "U" [] c = "v" -> "V" [] c = "w" -> "W" [] c = "x" -> "X"
       [] c = "y" -> "Y" [] c = "z" -> "Z"]

ToLower ==
  [c \in {"A","B","C","D","E","F","G","H","I","J","K","L","M","N","O","P","Q","R","S","T","U","V","W","X","Y","Z"} |->
     CASE c = "A" -> "a" [] c = "B" -> "b" [] c = "C" -> "c" [] c = "D" -> "d"
       [] c = "E" -> "e" [] c = "F" -> "f" [] c = "G" -> "g" [] c = "H" -> "h"
       [] c = "I" -> "i" [] c = "J" -> "j" [] c = "K" -> "k" [] c = "L" -> "l"
       [] c = "M" -> "m" [] c = "N" -> "n" [] c = "O" -> "o" [] c = "P" -> "p"
       [] c = "Q" -> "q" [] c = "R" -> "r" [] c = "S" -> "s" [] c = "T" -> "t"
       [] c = "U" -> "u" [] c = "V" -> "v" [] c = "W" -> "w" [] c = "X" -> "x"
       [] c = "Y" -> "y" [] c = "Z" -> "z"]

\* str.upper()
upper(t) == [i \in 1..Len(t) |-> IF t[i] \in DOMAIN ToUpper THEN ToUpper[t[i]] ELSE t[i]]

\* str.lower()
lower(t) == [i \in 1..Len(t) |-> IF t[i] \in DOMAIN ToLower THEN ToLower[t[i]] ELSE t[i]]

\* m in t
In(m, t) == \E i \in 0..(Len(t) - Len(m)) : \A j \in 1..Len(m) : t[i + j] = m[j]

\* t[:n]
Slice(t, n) == SubSeq(t, 1, Min(n, Len(t)))

\* t.startswith(m)
StartsWith(t, m) == Len(m) <= Len(t) /\ SubSeq(t, 1, Len(m)) = m

\* t.endswith(m)
EndsWith(t, m) == Len(m) <= Len(t) /\ SubSeq(t, Len(t) - Len(m) + 1, Len(t)) = m

\* sep.join(lines)
RECURSIVE Join(_, _)
Join(lines, sep) ==
  IF Len(lines) = 0 THEN <<>>
  ELSE IF Len(lines) = 1 THEN lines[1]
  ELSE lines[1] \o sep \o Join(Tail(lines), sep)

\* The positions at which sep occurs in t (0-based offsets of the match).
Occurrences(sep, t) ==
  {i \in 0..(Len(t) - Len(sep)) : \A j \in 1..Len(sep) : t[i + j] = sep[j]}

MinOf(S) == CHOOSE x \in S : \A y \in S : x <= y
MaxOf(S) == CHOOSE x \in S : \A y \in S : y <= x

\* t.split(sep)[0]
SplitFirst(t, sep) ==
  IF Occurrences(sep, t) = {} THEN t
  ELSE SubSeq(t, 1, MinOf(Occurrences(sep, t)))

\* t.split(sep)[-1]
SplitLast(t, sep) ==
  IF Occurrences(sep, t) = {} THEN t
  ELSE SubSeq(t, MaxOf(Occurrences(sep, t)) + Len(sep) + 1, Len(t))

Digits == <<"0","1","2","3","4","5","6","7","8","9">>

\* strftime "%H", "%M" and "%S": a number below 100 in two digits
TwoDigits(n) == <<Digits[(n \div 10) + 1], Digits[(n % 10) + 1]>>

\* strftime("%H<sep>%M<sep>%S") of datetime.now(ist) at clock tick now: the
\* clock counts the seconds from 10:00:00 of 2026-01-01 (IST)
ClockTime(now, sep) ==
  TwoDigits(10 + (now \div 3600)) \o sep \o TwoDigits((now \div 60) % 60) \o sep \o TwoDigits(now % 60)

DigitValue(c) == (CHOOSE i \in 1..10 : Digits[i] = c) - 1

\* int(t) succeeds: the samples carry no sign, blank or underscore, so this
\* is "t is a non-empty run of decimal digits".
IsInt(t) == Len(t) > 0 /\ \A i \in 1..Len(t) : \E d \in 1..10 : Digits[d] = t[i]

\* int(t), for IsInt(t)
RECURSIVE ToInt(_)
ToInt(t) ==
  IF Len(t) = 0 THEN 0
  ELSE 10 * ToInt(SubSeq(t, 1, Len(t) - 1)) + DigitValue(t[Len(t)])

\* str(n) for a natural number n
RECURSIVE Str(_)
Str(n) == IF n < 10 THEN <<Digits[n + 1]>> ELSE Str(n \div 10) \o <<Digits[(n % 10) + 1]>>

NL == <<"\n">>


(***************************************************************************)
(* pathlib / os.path on POSIX path strings.                                *)
(***************************************************************************)
SLASH == <<"/">>
DOT == <<".">>

\* Path(p).name
PathName(p) == SplitLast(p, SLASH)

\* Path(p).parent
Parent(p) ==
  IF Occurrences(SLASH, p) = {} THEN DOT
  ELSE IF MaxOf(Occurrences(SLASH, p)) = 0 THEN SLASH
  ELSE SubSeq(p, 1, MaxOf(Occurrences(SLASH, p)))

\* Path(d) / name
PathJoin(d, name) ==
  IF d = SLASH THEN d \o name
  ELSE IF d = DOT THEN name
  ELSE d \o SLASH \o name

\* Path(p).stem: the name without its last suffix
PathStem(p) ==
  IF Occurrences(DOT, PathName(p)) \subseteq {0} THEN PathName(p)
  ELSE SubSeq(PathName(p), 1, MaxOf(Occurrences(DOT, PathName(p))))

\* config.py: BASE_DIR is the directory of config.py; the sample installs
\* the agent in /app.
BASE_DIR == <<"/","a","p","p">>
COMPOSE_DIR == PathJoin(BASE_DIR, <<"c","o","m","p","o","s","e","_","f","i","l","e","s">>)
BACKUPS_DIR == PathJoin(BASE_DIR, <<"b","a","c","k","u","p","s">>)

(***************************************************************************)
(* Inputs: compose files, command results, free-form command output.       *)
(***************************************************************************)
\* A compose file the agent generated into COMPOSE_DIR, and one elsewhere.
FileInComposeDir == PathJoin(COMPOSE_DIR, <<"w","e","b",".","y","m","l">>)
FileElsewhere == <<"/","s","r","v","/","w","e","b",".","y","m","l">>
ComposeFiles == {FileInComposeDir, FileElsewhere}

\* Backups left by earlier runs, with their modification times.
OldBackup1 == PathJoin(BACKUPS_DIR, <<"w","e","b","_","b","a","c","k","u","p","_","2","0","2","5","1","2","3","1","_","0","9","0","0","0","0",".","y","m","l">>)
OldBackup2 == PathJoin(BACKUPS_DIR, <<"w","e","b","_","b","a","c","k","u","p","_","2","0","2","5","1","2","3","1","_","1","0","0","0","0","0",".","y","m","l">>)
MissingBackup == PathJoin(BACKUPS_DIR, <<"g","o","n","e",".","y","m","l">>)

\* Free-form stdout / stderr of the container runtime (already stripped, as
\* _run_compose returns them).
Out_plain == <<"s","e","r","v","i","c","e","s",":","\n"," "," ","w","e","b",":","\n"," "," "," "," ","i","m","a","g","e",":"," ","n","g","i","n","x">>
Out_marked == <<"s","e","r","v","i","c","e","s",":","\n"," "," ","w","e","b",":","\n"," "," "," "," ","e","n","v","i","r","o","n","m","e","n","t",":","\n"," "," "," "," "," "," ","L","O","G","_","L","E","V","E","L",":"," ","E","R","R","O","R">>
Err_plain == <<"y","a","m","l",":"," ","l","i","n","e"," ","3",":"," ","m","a","p","p","i","n","g"," ","v","a","l","u","e","s"," ","a","r","e"," ","n","o","t"," ","a","l","l","o","w","e","d"," ","i","n"," ","t","h","i","s"," ","c","o","n","t","e","x","t">>
Err_timeout == <<"C","o","m","m","a","n","d"," ","t","i","m","e","d"," ","o","u","t">>
Err_daemon == <<"E","r","r","o","r"," ","r","e","s","p","o","n","s","e"," ","f","r","o","m"," ","d","a","e","m","o","n",":"," ","p","u","l","l"," ","a","c","c","e","s","s"," ","d","e","n","i","e","d"," ","f","o","r"," ","w","e","b">>
Out_started == <<"C","o","n","t","a","i","n","e","r"," ","w","e","b"," "," ","S","t","a","r","t","e","d">>
Out_env_warning == <<"T","h","e"," ","E","R","R","O","R","_","L","O","G"," ","v","a","r","i","a","b","l","e"," ","i","s"," ","n","o","t"," ","s","e","t","."," ","D","e","f","a","u","l","t","i","n","g"," ","t","o"," ","a"," ","b","l","a","n","k"," ","s","t","r","i","n","g",".","\n","C","o","n","t","a","i","n","e","r"," ","w","e","b"," "," ","S","t","a","r","t","e","d">>
Out_ps == <<"N","A","M","E"," "," "," ","S","T","A","T","U","S","\n","w","e","b"," "," "," "," ","U","p"," ","2"," ","s","e","c","o","n","d","s">>

CmdOk(out, err) == [success |-> TRUE, stdout |-> out, stderr |-> err]
CmdFail(err) == [success |-> FALSE, stdout |-> <<>>, stderr |-> err]

\* docker compose -f <file> config
ConfigResults == {CmdOk(Out_plain, <<>>), CmdOk(Out_marked, <<>>), CmdFail(Err_plain), CmdFail(Err_timeout)}
\* docker compose -f <file> config -q
ConfigQuietResults == {CmdOk(<<>>, <<>>), CmdFail(Err_plain)}
\* docker compose -f <file> up -d
UpResults == {CmdOk(<<>>, Out_started), CmdOk(<<>>, Out_env_warning), CmdFail(Err_daemon)}
\* docker compose -f <file> ps
PsResults == {CmdOk(Out_ps, <<>>), CmdFail(Err_timeout)}
\* docker compose -f <file> down
DownResults == {CmdOk(<<>>, <<>>), CmdFail(Err_daemon)}

(***************************************************************************)
(* tools/compose_tools.py                                                  *)
(***************************************************************************)
\* os.path.exists(p) in the file system fs (files with their mtimes) / dirs
Exists(files, directories, p) == p \in DOMAIN files \/ p \in directories

\* compose_validate(file_path): exists is os.path.exists(file_path), r the
\* result of `docker compose config`.
compose_validate(file_path, exists, r) ==
  IF ~exists
    THEN <<"E","R","R","O","R",":"," ","C","o","m","p","o","s","e"," ","f","i","l","e"," ","n","o","t"," ","f","o","u","n","d",":"," ">> \o file_path \o <<"\n","P","l","e","a","s","e"," ","c","h","e","c","k"," ","t","h","e"," ","p","a","t","h"," ","o","r"," ","g","e","n","e","r","a","t","e"," ","a"," ","n","e","w"," ","c","o","m","p","o","s","e"," ","f","i","l","e",".">>
  ELSE IF r.success
    THEN <<"U+2713"," ","C","o","m","p","o","s","e"," ","f","i","l","e"," ","'">> \o file_path \o <<"'"," ","i","s"," ","v","a","l","i","d",".","\n","\n","R","e","s","o","l","v","e","d"," ","c","o","n","f","i","g","u","r","a","t","i","o","n",":","\n">> \o r.stdout
  ELSE <<"U+2717"," ","V","a","l","i","d","a","t","i","o","n"," ","F","A","I","L","E","D"," ","f","o","r"," ","'">> \o file_path \o <<"'",":","\n">> \o r.stderr

\* compose_up(file_path): v is the result of `config -q`, r of `up -d`,
\* ps of `ps`.
compose_up(file_path, exists, v, r, ps) ==
  IF ~exists
    THEN <<"E","R","R","O","R",":"," ","C","o","m","p","o","s","e"," ","f","i","l","e"," ","n","o","t"," ","f","o","u","n","d",":"," ">> \o file_path
  ELSE IF ~v.success
    THEN <<"U+2717"," ","C","o","m","p","o","s","e"," ","f","i","l","e"," ","v","a","l","i","d","a","t","i","o","n"," ","f","a","i","l","e","d","."," ","N","o","t"," ","d","e","p","l","o","y","i","n","g",".","\n">> \o v.stderr
  ELSE IF r.success
    THEN <<"U+2713"," ","S","e","r","v","i","c","e","s"," ","d","e","p","l","o","y","e","d"," ","s","u","c","c","e","s","s","f","u","l","l","y"," ","f","r","o","m"," ","'">> \o file_path \o <<"'",".","\n","\n">>
         \o <<"S","e","r","v","i","c","e"," ","S","t","a","t","u","s",":","\n">> \o (IF ps.success THEN ps.stdout ELSE <<"C","o","u","l","d"," ","n","o","t"," ","f","e","t","c","h"," ","s","e","r","v","i","c","e"," ","s","t","a","t","u","s",".">>) \o <<"\n","\n">>
         \o <<"O","u","t","p","u","t",":","\n">> \o r.stdout \o NL \o r.stderr
  ELSE <<"U+2717"," ","D","e","p","l","o","y","m","e","n","t"," ","F","A","I","L","E","D"," ","f","o","r"," ","'">> \o file_path \o <<"'",":","\n">> \o r.stderr

\* compose_down(file_path, remove_volumes=False)
compose_down(file_path, exists, r) ==
  IF ~exists
    THEN <<"E","R","R","O","R",":"," ","C","o","m","p","o","s","e"," ","f","i","l","e"," ","n","o","t"," ","f","o","u","n","d",":"," ">> \o file_path
  ELSE IF r.success
    THEN <<"U+2713"," ","S","e","r","v","i","c","e","s"," ","t","o","r","n"," ","d","o","w","n"," ","s","u","c","c","e","s","s","f","u","l","l","y"," ","f","r","o","m"," ","'">> \o file_path \o <<"'",".","\n">> \o r.stdout \o NL \o r.stderr
  ELSE <<"U+2717"," ","T","e","a","r","d","o","w","n"," ","F","A","I","L","E","D",":","\n">> \o r.stderr

\* datetime.now(ist).strftime("%Y%m%d_%H%M%S") at clock tick now
BackupTimestamp(now) == <<"2","0","2","6","0","1","0","1","_">> \o ClockTime(now, <<>>)

\* backup_compose_file: the path the copy is written to
backup_path(file_path, now) ==
  PathJoin(BACKUPS_DIR, PathStem(file_path) \o <<"_","b","a","c","k","u","p","_">> \o BackupTimestamp(now) \o <<".","y","m","l">>)

\* How shutil.copy2(file_path, backup_path) ends: the copy is written with the
\* source's modification time ("ok"), the device fills up while the created
\* destination is being written ("enospc"), or the destination cannot be
\* created on a read-only file system ("erofs").
CopyOutcomes == {"ok", "enospc", "erofs"}

\* str(e) of the OSError shutil.copy2 raises
copy_error(file_path, now, copy) ==
  IF copy = "enospc"
    THEN <<"[","E","r","r","n","o"," ","2","8","]"," ","N","o"," ","s","p","a","c","e"," ","l","e","f","t"," ","o","n"," ","d","e","v","i","c","e",":"," ","'">> \o file_path \o <<"'"," ","-",">"," ","'">> \o backup_path(file_path, now) \o <<"'">>
    ELSE <<"[","E","r","r","n","o"," ","3","0","]"," ","R","e","a","d","-","o","n","l","y"," ","f","i","l","e"," ","s","y","s","t","e","m",":"," ","'">> \o backup_path(file_path, now) \o <<"'">>

\* The modification time of a file written at clock tick now (seconds since
\* the epoch of 2026-01-01 10:00:00 IST, the time BackupTimestamp formats)
mtime_at(now) == 1767241800 + now

\* The files after shutil.copy2(file_path, backup_path): the copy keeps the
\* source's modification time; a copy that fails for lack of space leaves the
\* destination it created, modified at the time of the attempt.
after_copy(files, file_path, now, copy) ==
  IF file_path \notin DOMAIN files \/ copy = "erofs" THEN files
  ELSE [q \in DOMAIN files \cup {backup_path(file_path, now)} |->
          IF q = backup_path(file_path, now)
            THEN (IF copy = "ok" THEN files[file_path] ELSE mtime_at(now))
            ELSE files[q]]

\* backup_compose_file(file_path): the text returned; copy is how
\* shutil.copy2 ended.
backup_compose_file(file_path, exists, copy, now) ==
  IF ~exists THEN <<"E","R","R","O","R",":"," ","F","i","l","e"," ","n","o","t"," ","f","o","u","n","d",":"," ">> \o file_path
  ELSE IF copy = "ok" THEN <<"U+2713">> \o <<" ","B","a","c","k","u","p"," ","c","r","e","a","t","e","d",":"," ">> \o backup_path(file_path, now)
  ELSE <<"E","R","R","O","R",":"," ","F","a","i","l","e","d"," ","t","o"," ","c","r","e","a","t","e"," ","b","a","c","k","u","p",":"," ">> \o copy_error(file_path, now, copy)


(***************************************************************************)
(* tools/monitoring_tools.py                                               *)
(***************************************************************************)
COLON == <<":">>

\* The compose file as yaml.safe_load returns it: services in file order,
\* each with its list of port mappings (str(port_mapping)).
Svc(name, ports) == [name |-> name, ports |-> ports]
DocNoPorts == [parse_ok |-> TRUE, services |-> <<Svc(<<"w","e","b">>, <<>>)>>]
DocShort == [parse_ok |-> TRUE, services |-> <<Svc(<<"w","e","b">>, <<<<"8","0","8","0",":","8","0">>>>), Svc(<<"d","b">>, <<<<"5","4","3","2">>>>)>>]
DocWithIp == [parse_ok |-> TRUE, services |-> <<Svc(<<"w","e","b">>, <<<<"1","2","7",".","0",".","0",".","1",":","8","0","8","0",":","8","0">>>>)>>]
DocNamed == [parse_ok |-> TRUE, services |-> <<Svc(<<"p","r","e","o","c","c","u","p","i","e","d">>, <<<<"9","0","9","0",":","9","0">>>>)>>]
DocUnparsable == [parse_ok |-> FALSE, services |-> <<>>]
Docs == {DocNoPorts, DocShort, DocWithIp, DocNamed, DocUnparsable}
\* str(e) of the yaml.MarkedYAMLError raised on a file holding
\* "services:\n  web: image: nginx\n": the problem, then the mark with the
\* name of the open file and the position.
YamlError(file_path) ==
  <<"m","a","p","p","i","n","g"," ","v","a","l","u","e","s"," ","a","r","e"," ","n","o","t"," ","a","l","l","o","w","e","d"," ","h","e","r","e">> \o NL \o <<" "," ","i","n"," ">> \o <<"\"">> \o file_path \o <<"\"">> \o <<","," ","l","i","n","e"," ","2",","," ","c","o","l","u","m","n"," ","1","3">>

\* Host ports on which a connection to 127.0.0.1 succeeds.
OccupiedSets == {{}, {8080}}

\* detect_port_conflicts, lines 98-108: the (service, host port) pairs of one
\* service's port mappings, in order.
RECURSIVE ports_of_service(_, _)
ports_of_service(svc_name, mappings) ==
  IF Len(mappings) = 0 THEN <<>>
  ELSE LET port_str == Head(mappings)
           host_port == SplitFirst(port_str, COLON)
           rest == ports_of_service(svc_name, Tail(mappings))
       IN IF In(COLON, port_str) /\ IsInt(host_port)
            THEN <<[svc |-> svc_name, port |-> ToInt(host_port)]>> \o rest
            ELSE rest

\* detect_port_conflicts, lines 98-108: ports_to_check over all services
RECURSIVE ports_to_check(_)
ports_to_check(services) ==
  IF Len(services) = 0 THEN <<>>
  ELSE ports_of_service(Head(services).name, Head(services).ports) \o ports_to_check(Tail(services))

\* detect_port_conflicts, lines 116-128: the report line of one port
port_line(e, occupied) ==
  IF e.port > 65535  \* connect_ex raises outside 0..65535
    THEN <<" "," ","?"," ","P","o","r","t"," ">> \o Str(e.port) \o <<" ","(","s","e","r","v","i","c","e",":"," ">> \o e.svc \o <<")"," ","U+2014"," ","c","o","u","l","d"," ","n","o","t"," ","c","h","e","c","k">>
  ELSE IF e.port \in occupied
    THEN <<" "," ","U+26A0"," ","P","o","r","t"," ">> \o Str(e.port) \o <<" ","(","s","e","r","v","i","c","e",":"," ">> \o e.svc \o <<")"," ","U+2014"," ","I","N"," ","U","S","E">>
  ELSE <<" "," ","U+2713"," ","P","o","r","t"," ">> \o Str(e.port) \o <<" ","(","s","e","r","v","i","c","e",":"," ">> \o e.svc \o <<")"," ","U+2014"," ","a","v","a","i","l","a","b","l","e">>

is_conflict(e, occupied) == e.port <= 65535 /\ e.port \in occupied

RECURSIVE port_lines(_, _, _)
port_lines(entries, occupied, want_conflicts) ==
  IF Len(entries) = 0 THEN <<>>
  ELSE (IF is_conflict(Head(entries), occupied) = want_conflicts
          THEN <<port_line(Head(entries), occupied)>> ELSE <<>>)
       \o port_lines(Tail(entries), occupied, want_conflicts)

\* detect_port_conflicts(file_path)
detect_port_conflicts(file_path, exists, doc, occupied) ==
  IF ~exists THEN <<"E","R","R","O","R",":"," ","F","i","l","e"," ","n","o","t"," ","f","o","u","n","d",":"," ">> \o file_path
  ELSE IF ~doc.parse_ok THEN <<"E","R","R","O","R",":"," ","C","o","u","l","d"," ","n","o","t"," ","p","a","r","s","e"," ","c","o","m","p","o","s","e"," ","f","i","l","e",":"," ">> \o YamlError(file_path)
  ELSE LET to_check == ports_to_check(doc.services)
           conflicts == port_lines(to_check, occupied, TRUE)
           available == port_lines(to_check, occupied, FALSE)
       IN IF Len(to_check) = 0 THEN <<"N","o"," ","p","o","r","t"," ","m","a","p","p","i","n","g","s"," ","f","o","u","n","d"," ","i","n"," ","c","o","m","p","o","s","e"," ","f","i","l","e",".">>
          ELSE Join(<<<<"U+2501","U+2501"," ","P","O","R","T"," ","C","O","N","F","L","I","C","T"," ","R","E","P","O","R","T"," ","U+2501","U+2501","U+2501","U+2501","U+2501","U+2501","U+2501","U+2501","U+2501","U+2501","U+2501","U+2501","U+2501","U+2501","U+2501","U+2501">>>>
                    \o (IF Len(conflicts) > 0 THEN <<<<"C","O","N","F","L","I","C","T","S"," ","D","E","T","E","C","T","E","D",":">>>> \o conflicts \o <<<<>>>> ELSE <<>>)
                    \o <<<<"A","V","A","I","L","A","B","L","E"," ","P","O","R","T","S",":">>>> \o available
                    \o <<<<"U+2501","U+2501","U+2501","U+2501","U+2501","U+2501","U+2501","U+2501","U+2501","U+2501","U+2501","U+2501","U+2501","U+2501","U+2501","U+2501","U+2501","U+2501","U+2501","U+2501","U+2501","U+2501","U+2501","U+2501","U+2501","U+2501","U+2501","U+2501","U+2501","U+2501","U+2501","U+2501","U+2501","U+2501","U+2501","U+2501","U+2501","U+2501","U+2501">>>>, NL)


(***************************************************************************)
(* tools/testing_tools.py: the 8-point suite.                              *)
(*                                                                         *)
(* An observation obs of the live deployment is what the docker commands   *)
(* of one call return:                                                     *)
(*   services   names `docker compose ps --format json` lists              *)
(*   all_names  names `docker compose ps` lists                            *)
(*   running    the instances `docker compose ps --status running` lists,  *)
(*              each with the results of the probes run against it         *)
(*   open_ports host ports on which connect_ex returns 0                   *)
(*   reachable  names that answer the ping from the first instance         *)
(*   writable   mount points on which the write-read-delete succeeds       *)
(***************************************************************************)
PASS == <<"P","A","S","S">>
WARN == <<"W","A","R","N">>
FAIL == <<"F","A","I","L">>

SPACE == <<" ">>
COMMA_SP == <<","," ">>
EQ == <<"=">>

\* str.strip() for blanks, tabs and newlines
RECURSIVE Strip(_)
Strip(t) ==
  IF Len(t) = 0 THEN t
  ELSE IF Head(t) \in {" ", "\n", "\t"} THEN Strip(Tail(t))
  ELSE IF t[Len(t)] \in {" ", "\n", "\t"} THEN Strip(SubSeq(t, 1, Len(t) - 1))
  ELSE t

\* t.split(sep), for a non-empty sep
RECURSIVE Split(_, _)
Split(t, sep) ==
  IF Occurrences(sep, t) = {} THEN <<t>>
  ELSE <<SubSeq(t, 1, MinOf(Occurrences(sep, t)))>>
       \o Split(SubSeq(t, MinOf(Occurrences(sep, t)) + Len(sep) + 1, Len(t)), sep)

\* [x for x in xs if m in x]
RECURSIVE Having(_, _)
Having(xs, m) ==
  IF Len(xs) = 0 THEN <<>>
  ELSE (IF In(m, Head(xs)) THEN <<Head(xs)>> ELSE <<>>) \o Having(Tail(xs), m)

\* [r.name for r in running]
RECURSIVE Names(_)
Names(running) == IF Len(running) = 0 THEN <<>> ELSE <<Head(running).name>> \o Names(Tail(running))

\* [c for c in xs if c not in ys]
RECURSIVE NotIn(_, _)
NotIn(xs, ys) ==
  IF Len(xs) = 0 THEN <<>>
  ELSE (IF \E i \in 1..Len(ys) : ys[i] = Head(xs) THEN <<>> ELSE <<Head(xs)>>) \o NotIn(Tail(xs), ys)

Verdict(status, detail) == [status |-> status, detail |-> detail]

\* TEST 1, lines 97-116
container_running_test(obs) ==
  LET running_containers == Names(obs.running)
      not_running == NotIn(obs.all_names, running_containers)
  IN IF Len(not_running) = 0 /\ Len(running_containers) > 0
       THEN Verdict(PASS, <<"A","L","L"," ">> \o Str(Len(running_containers)) \o <<" ","r","u","n","n","i","n","g">>)
     ELSE IF Len(not_running) > 0
       THEN Verdict(FAIL, Join(not_running, COMMA_SP) \o <<" ","n","o","t"," ","r","u","n","n","i","n","g">>)
     ELSE Verdict(FAIL, <<"N","o"," ","c","o","n","t","a","i","n","e","r","s"," ","f","o","u","n","d">>)

\* The health status the i-th inspect of instance c reports: "starting"
\* for the first c.health.pending polls, c.health.status from then on.
poll_status(c, i) == IF i <= c.health.pending THEN <<"s","t","a","r","t","i","n","g">> ELSE c.health.status

\* TEST 2, lines 122-136: the polling loop of one instance from poll i on;
\* the entry appended to health_results, or <<>> when the polls run out.
RECURSIVE health_poll(_, _)
health_poll(c, i) ==
  IF i > 12 THEN <<>>
  ELSE IF poll_status(c, i) = <<"h","e","a","l","t","h","y">> THEN <<c.name \o <<"=","h","e","a","l","t","h","y">>>>
  ELSE IF poll_status(c, i) = <<"n","o"," ","h","e","a","l","t","h","c","h","e","c","k">> THEN <<c.name \o <<"=","n","o"," ","h","e","a","l","t","h","c","h","e","c","k">>>>
  ELSE IF poll_status(c, i) = <<"u","n","h","e","a","l","t","h","y">> THEN <<c.name \o <<"=","u","n","h","e","a","l","t","h","y">>>>
  ELSE health_poll(c, i + 1)

\* TEST 2, lines 119-138: health_results after the instances in running
RECURSIVE health_results(_, _)
health_results(running, acc) ==
  IF Len(running) = 0 THEN acc
  ELSE LET c == Head(running)
           polled == acc \o health_poll(c, 1)
           healthy == health_poll(c, 1) = <<c.name \o <<"=","h","e","a","l","t","h","y">>>>
           after == IF ~healthy /\ ~In(c.name \o EQ, Join(polled, SPACE))
                      THEN polled \o <<c.name \o <<"=","t","i","m","e","o","u","t">>>>
                      ELSE polled
       IN health_results(Tail(running), after)

\* TEST 2, lines 140-151
health_check_test(obs) ==
  LET results == health_results(obs.running, <<>>)
      unhealthy == SelectSeq(results, LAMBDA h : In(<<"u","n","h","e","a","l","t","h","y">>, h) \/ In(<<"t","i","m","e","o","u","t">>, h))
      no_hc == Having(results, <<"n","o"," ","h","e","a","l","t","h","c","h","e","c","k">>)
  IN IF Len(unhealthy) > 0 THEN Verdict(FAIL, Join(results, COMMA_SP))
     ELSE IF Len(no_hc) > 0 THEN Verdict(WARN, Join(results, COMMA_SP))
     ELSE Verdict(PASS, Join(results, COMMA_SP))

ARROW == <<"-",">">>

\* TEST 3, lines 158-173: the port_results entries of the lines of one
\* `docker port` output
RECURSIVE port_results_of_lines(_, _)
port_results_of_lines(lines, open_ports) ==
  IF Len(lines) = 0 THEN <<>>
  ELSE LET port_line_ == Head(lines)
           host_part == Strip(SplitLast(port_line_, ARROW))
           host_port == SplitLast(host_part, COLON)
           rest == port_results_of_lines(Tail(lines), open_ports)
       IN IF In(ARROW, port_line_) /\ In(COLON, host_part)
            THEN (IF IsInt(host_port) /\ ToInt(host_port) <= 65535
                    THEN (IF ToInt(host_port) \in open_ports
                            THEN <<host_port \o <<"=","o","p","e","n">>>>
                            ELSE <<host_port \o <<"=","c","l","o","s","e","d">>>>)
                    ELSE <<host_port \o <<"=","e","r","r","o","r">>>>) \o rest
            ELSE rest

\* TEST 3, lines 154-173: port_results over the running instances
RECURSIVE port_results(_, _)
port_results(running, open_ports) ==
  IF Len(running) = 0 THEN <<>>
  ELSE (IF Head(running).port.success /\ Len(Head(running).port.stdout) > 0
          THEN port_results_of_lines(Split(Head(running).port.stdout, NL), open_ports)
          ELSE <<>>)
       \o port_results(Tail(running), open_ports)

\* A variant of lines 175-184 without the case of no port mapping
port_binding_test_m(obs) ==
  LET results == port_results(obs.running, obs.open_ports)
      port_failures == SelectSeq(results, LAMBDA q : In(<<"c","l","o","s","e","d">>, q) \/ In(<<"e","r","r","o","r">>, q))
  IN IF Len(port_failures) = 0 THEN Verdict(PASS, Join(results, COMMA_SP))
     ELSE Verdict(FAIL, Join(results, COMMA_SP))

\* TEST 3, lines 175-184
port_binding_test(obs) ==
  LET results == port_results(obs.running, obs.open_ports)
      port_failures == SelectSeq(results, LAMBDA q : In(<<"c","l","o","s","e","d">>, q) \/ In(<<"e","r","r","o","r">>, q))
  IN IF Len(results) > 0 /\ Len(port_failures) = 0 THEN Verdict(PASS, Join(results, COMMA_SP))
     ELSE IF Len(port_failures) > 0 THEN Verdict(FAIL, Join(results, COMMA_SP))
     ELSE Verdict(WARN, <<"N","o"," ","p","o","r","t"," ","m","a","p","p","i","n","g","s"," ","f","o","u","n","d">>)

DASH == <<"-">>

\* TEST 4, lines 190-201: connectivity_results for the instances after the first
RECURSIVE connectivity_results(_, _)
connectivity_results(others, reachable) ==
  IF Len(others) = 0 THEN <<>>
  ELSE LET other == Head(others)
           short_name == IF In(DASH, other) THEN SplitLast(other, DASH) ELSE other
       IN (IF other \in reachable THEN <<other \o <<"=","r","e","a","c","h","a","b","l","e">>>>
           ELSE IF short_name \in reachable THEN <<short_name \o <<"=","r","e","a","c","h","a","b","l","e">>>>
           ELSE <<other \o <<"=","u","n","r","e","a","c","h","a","b","l","e">>>>)
          \o connectivity_results(Tail(others), reachable)

\* TEST 4, lines 187-212
connectivity_test(obs) ==
  LET running_containers == Names(obs.running)
      results == connectivity_results(Tail(running_containers), obs.reachable)
  IN IF Len(running_containers) > 1
       THEN (IF Len(Having(results, <<"u","n","r","e","a","c","h","a","b","l","e">>)) > 0
               THEN Verdict(WARN, Join(results, COMMA_SP))
               ELSE Verdict(PASS, Join(results, COMMA_SP)))
       ELSE Verdict(PASS, <<"S","i","n","g","l","e"," ","s","e","r","v","i","c","e"," ","U+2014"," ","s","k","i","p","p","e","d">>)

\* TEST 5, lines 220-227: the entries of the first two mounts of one instance
RECURSIVE mount_results(_, _)
mount_results(mounts, writable) ==
  IF Len(mounts) = 0 THEN <<>>
  ELSE (IF Head(mounts) \in writable
          THEN <<Head(mounts) \o <<"=","w","r","i","t","a","b","l","e">>>>
          ELSE <<Head(mounts) \o <<"=","n","o","t","_","w","r","i","t","a","b","l","e">>>>)
       \o mount_results(Tail(mounts), writable)

\* TEST 5, lines 215-227: volume_results over the running instances
RECURSIVE volume_results(_, _)
volume_results(running, writable) ==
  IF Len(running) = 0 THEN <<>>
  ELSE mount_results(Slice(Head(running).mounts, 2), writable)
       \o volume_results(Tail(running), writable)

\* TEST 5, lines 229-239
volume_mount_test(obs) ==
  LET results == volume_results(obs.running, obs.writable)
  IN IF Len(results) > 0
       THEN (IF Len(Having(results, <<"n","o","t","_","w","r","i","t","a","b","l","e">>)) > 0
               THEN Verdict(WARN, Join(results, COMMA_SP))
               ELSE Verdict(PASS, Join(results, COMMA_SP)))
       ELSE Verdict(PASS, <<"N","o"," ","v","o","l","u","m","e","s"," ","t","o"," ","t","e","s","t">>)

\* TEST 6, lines 242-249
RECURSIVE env_results(_)
env_results(running) ==
  IF Len(running) = 0 THEN <<>>
  ELSE (IF Head(running).env.success
          THEN <<Head(running).name \o EQ \o Str(Head(running).env.count) \o <<" ","v","a","r","s">>>>
          ELSE <<Head(running).name \o <<"=","c","a","n","n","o","t"," ","r","e","a","d"," ","e","n","v">>>>)
       \o env_results(Tail(running))

\* TEST 6, lines 251-257
environment_variable_test(obs) ==
  LET results == env_results(obs.running)
  IN IF Len(Having(results, <<"c","a","n","n","o","t">>)) > 0
       THEN Verdict(WARN, Join(results, COMMA_SP))
       ELSE Verdict(PASS, Join(results, COMMA_SP))

\* TEST 7, line 260
error_keywords == <<<<"p","a","n","i","c">>, <<"f","a","t","a","l">>, <<"e","r","r","o","r">>, <<"e","x","c","e","p","t","i","o","n">>, <<"r","e","f","u","s","e","d">>, <<"t","i","m","e","o","u","t">>>>

\* [kw for kw in kws if kw in output]
RECURSIVE found_keywords(_, _)
found_keywords(kws, output) ==
  IF Len(kws) = 0 THEN <<>>
  ELSE (IF In(Head(kws), output) THEN <<Head(kws)>> ELSE <<>>) \o found_keywords(Tail(kws), output)

\* TEST 7, lines 261-267
RECURSIVE log_issues(_)
log_issues(running) ==
  IF Len(running) = 0 THEN <<>>
  ELSE LET output == lower(Head(running).logs.stdout \o SPACE \o Head(running).logs.stderr)
           found == found_keywords(error_keywords, output)
       IN (IF Len(found) > 0
             THEN <<Head(running).name \o <<":"," ","f","o","u","n","d"," ","[">> \o Join(found, COMMA_SP) \o <<"]">>>>
             ELSE <<>>)
          \o log_issues(Tail(running))

\* TEST 7 with a keyword hit counted as a failure
log_output_test_m(obs) ==
  IF Len(log_issues(obs.running)) > 0
    THEN Verdict(FAIL, Join(log_issues(obs.running), <<";"," ">>))
    ELSE Verdict(PASS, <<"N","o"," ","e","r","r","o","r"," ","k","e","y","w","o","r","d","s"," ","i","n"," ","s","t","a","r","t","u","p"," ","l","o","g","s">>)

\* TEST 7, lines 269-274
log_output_test(obs) ==
  IF Len(log_issues(obs.running)) > 0
    THEN Verdict(WARN, Join(log_issues(obs.running), <<";"," ">>))
    ELSE Verdict(PASS, <<"N","o"," ","e","r","r","o","r"," ","k","e","y","w","o","r","d","s"," ","i","n"," ","s","t","a","r","t","u","p"," ","l","o","g","s">>)

\* str(x) of the float x = v / 100 for a percentage docker prints with two
\* decimals (v in hundredths): 7550 -> "75.5", 7525 -> "75.25", 7500 -> "75.0"
FloatStr(v) ==
  Str(v \div 100) \o DOT
  \o (IF v % 10 = 0 THEN Str((v % 100) \div 10) ELSE Str((v % 100) \div 10) \o Str(v % 10))

\* TEST 8, lines 278-291: stats.parsed is whether the stdout splits into two
\* tab-separated floats; cpu and mem are the values in hundredths of a percent.
RECURSIVE resource_warnings(_)
resource_warnings(running) ==
  IF Len(running) = 0 THEN <<>>
  ELSE LET c == Head(running)
       IN (IF c.stats.success /\ c.stats.parsed
             THEN (IF c.stats.cpu > 5000 THEN <<c.name \o <<":"," ","C","P","U","=">> \o FloatStr(c.stats.cpu) \o <<"%">>>> ELSE <<>>)
                  \o (IF c.stats.mem > 7000 THEN <<c.name \o <<":"," ","M","E","M","=">> \o FloatStr(c.stats.mem) \o <<"%">>>> ELSE <<>>)
             ELSE <<>>)
          \o resource_warnings(Tail(running))

\* TEST 8, lines 293-298
resource_baseline_test(obs) ==
  IF Len(resource_warnings(obs.running)) > 0
    THEN Verdict(WARN, Join(resource_warnings(obs.running), COMMA_SP))
    ELSE Verdict(PASS, <<"A","l","l"," ","c","o","n","t","a","i","n","e","r","s"," ","w","i","t","h","i","n"," ","n","o","r","m","a","l"," ","l","i","m","i","t","s">>)

\* A variant in which the connectivity test of a single instance is
\* skipped without a report line
check_verdicts_m(obs) ==
  <<container_running_test(obs), health_check_test(obs), port_binding_test(obs)>>
  \o (IF Len(obs.running) > 1 THEN <<connectivity_test(obs)>> ELSE <<>>)
  \o <<volume_mount_test(obs), environment_variable_test(obs),
       log_output_test(obs), resource_baseline_test(obs)>>

\* The eight verdicts in report order
check_verdicts(obs) ==
  <<container_running_test(obs), health_check_test(obs), port_binding_test(obs),
    connectivity_test(obs), volume_mount_test(obs), environment_variable_test(obs),
    log_output_test(obs), resource_baseline_test(obs)>>

\* The label each test prints before its detail
check_labels ==
  <<<<"C","o","n","t","a","i","n","e","r"," ","R","u","n","n","i","n","g"," ","T","e","s","t"," "," "," ",":"," ">>, <<"H","e","a","l","t","h"," ","C","h","e","c","k"," ","T","e","s","t"," "," "," "," "," "," "," "," ",":"," ">>, <<"P","o","r","t"," ","B","i","n","d","i","n","g"," ","T","e","s","t"," "," "," "," "," "," "," "," ",":"," ">>,
    <<"C","o","n","n","e","c","t","i","v","i","t","y"," ","T","e","s","t"," "," "," "," "," "," "," "," ",":"," ">>, <<"V","o","l","u","m","e"," ","M","o","u","n","t"," ","T","e","s","t"," "," "," "," "," "," "," "," ",":"," ">>, <<"E","n","v","i","r","o","n","m","e","n","t"," ","V","a","r","i","a","b","l","e"," ","T","e","s","t"," ",":"," ">>,
    <<"L","o","g"," ","O","u","t","p","u","t"," ","T","e","s","t"," "," "," "," "," "," "," "," "," "," ",":"," ">>, <<"R","e","s","o","u","r","c","e"," ","B","a","s","e","l","i","n","e"," ","T","e","s","t"," "," "," ",":"," ">>>>

\* pass_count / warn_count / fail_count
CountOf(verdicts, status) == Cardinality({i \in 1..Len(verdicts) : verdicts[i].status = status})

\* A variant of lines 304-309 that tests the warnings before the failures
final_verdict_m(pass_count, warn_count, fail_count) ==
  IF warn_count > 0 THEN <<"A","C","C","E","P","T","E","D"," ","W","I","T","H"," ","W","A","R","N","I","N","G","S">>
  ELSE IF fail_count > 0 THEN <<"F","A","I","L","E","D"," ","U+2014"," ","r","o","l","l","b","a","c","k"," ","r","e","c","o","m","m","e","n","d","e","d">>
  ELSE <<"S","U","C","C","E","S","S","F","U","L">>

\* Final verdict, lines 304-309
final_verdict(pass_count, warn_count, fail_count) ==
  IF fail_count > 0 THEN <<"F","A","I","L","E","D"," ","U+2014"," ","r","o","l","l","b","a","c","k"," ","r","e","c","o","m","m","e","n","d","e","d">>
  ELSE IF warn_count > 0 THEN <<"A","C","C","E","P","T","E","D"," ","W","I","T","H"," ","W","A","R","N","I","N","G","S">>
  ELSE <<"S","U","C","C","E","S","S","F","U","L">>

\* datetime.now(ist).strftime("%Y-%m-%d %H:%M:%S") at clock tick now
ReportTimestamp(now) == <<"2","0","2","6","-","0","1","-","0","1"," ">> \o ClockTime(now, <<":">>)

\* The report of the verdicts, lines 90-95 and 301-314
test_report(file_path, expected, verdicts, now) ==
  LET tag(kind) == <<"[">> \o ReportTimestamp(now) \o <<"]"," ","[">> \o kind \o <<"]"," ">>
      test == tag(<<"T","E","S","T">>)
  IN Join(<<test \o <<"U+2501","U+2501"," ","D","E","P","L","O","Y","M","E","N","T"," ","T","E","S","T"," ","R","E","P","O","R","T"," ","U+2501","U+2501","U+2501","U+2501","U+2501","U+2501","U+2501","U+2501","U+2501","U+2501","U+2501","U+2501">>,
            test \o <<"C","o","m","p","o","s","e"," ","F","i","l","e"," ",":"," ">> \o file_path,
            test \o <<"S","e","r","v","i","c","e","s"," "," "," "," "," ",":"," ">> \o (IF Len(expected) > 0 THEN Join(expected, COMMA_SP) ELSE <<"n","o","n","e"," ","d","e","t","e","c","t","e","d">>),
            test \o <<"U+2500","U+2500","U+2500","U+2500","U+2500","U+2500","U+2500","U+2500","U+2500","U+2500","U+2500","U+2500","U+2500","U+2500","U+2500","U+2500","U+2500","U+2500","U+2500","U+2500","U+2500","U+2500","U+2500","U+2500","U+2500","U+2500","U+2500","U+2500","U+2500","U+2500","U+2500","U+2500","U+2500","U+2500","U+2500","U+2500","U+2500">>>>
          \o [i \in 1..Len(verdicts) |-> tag(verdicts[i].status) \o check_labels[i] \o verdicts[i].detail]
          \o <<test \o <<"U+2500","U+2500","U+2500","U+2500","U+2500","U+2500","U+2500","U+2500","U+2500","U+2500","U+2500","U+2500","U+2500","U+2500","U+2500","U+2500","U+2500","U+2500","U+2500","U+2500","U+2500","U+2500","U+2500","U+2500","U+2500","U+2500","U+2500","U+2500","U+2500","U+2500","U+2500","U+2500","U+2500","U+2500","U+2500","U+2500","U+2500">>,
               test \o <<"R","e","s","u","l","t",":"," ">> \o Str(CountOf(verdicts, PASS)) \o <<" ","P","A","S","S"," ","/"," ">>
                    \o Str(CountOf(verdicts, WARN)) \o <<" ","W","A","R","N"," ","/"," ">>
                    \o Str(CountOf(verdicts, FAIL)) \o <<" ","F","A","I","L">>,
               test \o <<"D","e","p","l","o","y","m","e","n","t",":"," ">>
                    \o final_verdict(CountOf(verdicts, PASS), CountOf(verdicts, WARN), CountOf(verdicts, FAIL)),
               test \o <<"U+2501","U+2501","U+2501","U+2501","U+2501","U+2501","U+2501","U+2501","U+2501","U+2501","U+2501","U+2501","U+2501","U+2501","U+2501","U+2501","U+2501","U+2501","U+2501","U+2501","U+2501","U+2501","U+2501","U+2501","U+2501","U+2501","U+2501","U+2501","U+2501","U+2501","U+2501","U+2501","U+2501","U+2501","U+2501","U+2501">>>>, NL)

\* [s.strip() for s in xs]
RECURSIVE StripAll(_)
StripAll(xs) == IF Len(xs) = 0 THEN <<>> ELSE <<Strip(Head(xs))>> \o StripAll(Tail(xs))

\* Lines 78-82: the expected services are the comma-separated names the
\* caller gave, or the detected services when the caller gave none
expected_of(obs) ==
  IF Len(obs.expected_services) > 0 THEN StripAll(Split(obs.expected_services, <<",">>)) ELSE obs.services

\* run_post_deploy_tests(file_path, expected_services): the workflows pass
\* no expected services (TestInput.expected_services = "").
run_post_deploy_tests(file_path, obs, now) ==
  test_report(file_path, expected_of(obs), check_verdicts(obs), now)


(***************************************************************************)
(* Sample observations of a live deployment.                               *)
(***************************************************************************)
Probe(name, pending, status, port_stdout, mounts, env_ok, log_err, cpu, mem) ==
  [name |-> name,
   health |-> [pending |-> pending, status |-> status],
   port |-> [success |-> TRUE, stdout |-> port_stdout],
   mounts |-> mounts,
   env |-> [success |-> env_ok, count |-> 7],
   logs |-> [stdout |-> <<"r","e","a","d","y"," ","t","o"," ","a","c","c","e","p","t"," ","c","o","n","n","e","c","t","i","o","n","s">>, stderr |-> log_err],
   stats |-> [success |-> TRUE, parsed |-> TRUE, cpu |-> cpu, mem |-> mem]]

WebName == <<"a","p","p","-","w","e","b","-","1">>
DbName == <<"a","p","p","-","d","b","-","1">>
WebPort == <<"8","0","/","t","c","p"," ","-",">"," ","0",".","0",".","0",".","0",":","8","0","8","0">>
DataMount == <<"/","d","a","t","a">>

Observation(services, all_names, running, open_ports, reachable, writable) ==
  [expected_services |-> <<>>, services |-> services, all_names |-> all_names, running |-> running,
   open_ports |-> open_ports, reachable |-> reachable, writable |-> writable]

\* One healthy instance, its port answering: 8 PASS.
ObsAllPass ==
  Observation(<<WebName>>, <<WebName>>,
              <<Probe(WebName, 1, <<"h","e","a","l","t","h","y">>, WebPort, <<DataMount>>, TRUE, <<>>, 150, 320)>>,
              {8080}, {}, {DataMount})
\* The instance reports unhealthy: the Health check FAILs, the others PASS.
ObsUnhealthy ==
  Observation(<<WebName>>, <<WebName>>,
              <<Probe(WebName, 0, <<"u","n","h","e","a","l","t","h","y">>, WebPort, <<DataMount>>, TRUE, <<>>, 150, 320)>>,
              {8080}, {}, {DataMount})
\* No healthcheck declared and a busy instance: WARNs, no FAIL.
ObsWarn ==
  Observation(<<WebName>>, <<WebName>>,
              <<Probe(WebName, 0, <<"n","o"," ","h","e","a","l","t","h","c","h","e","c","k">>, WebPort, <<>>, TRUE, <<"c","o","n","n","e","c","t","i","o","n"," ","r","e","f","u","s","e","d">>, 7550, 320)>>,
              {8080}, {}, {})
\* Nothing came up.
ObsNone == Observation(<<>>, <<>>, <<>>, {}, {}, {})
\* One of two instances stopped, the port of the other closed.
ObsStopped ==
  Observation(<<WebName, DbName>>, <<WebName, DbName>>,
              <<Probe(WebName, 0, <<"h","e","a","l","t","h","y">>, WebPort, <<>>, TRUE, <<>>, 150, 320)>>,
              {}, {}, {})
ObsSamples == {ObsAllPass, ObsUnhealthy, ObsWarn, ObsNone, ObsStopped}


(***************************************************************************)
(* State.                                                                  *)
(*   fs, dirs       the file system: files with their modification times,  *)
(*                  and the directories that exist                         *)
(*   clock          the wall clock, in ticks                               *)
(*   kind           the kind of the run that was started                   *)
(*   file_path      the compose file the run was started for               *)
(*   dw             DeployWorkflow.run: its position and local variables   *)
(*   rw             RollbackWorkflow.run: its position, input and locals   *)
(*   hm             HealthMonitorWorkflow.run: its position and locals     *)
(*   vr             the observation and report of a verification call      *)
(*   cg             compose_generate: the specification submitted and the  *)
(*                  calls made with it                                     *)
(*   act            the activity a run is waiting for once an attempt at   *)
(*                  it failed: the call site, the failed attempts so far,  *)
(*                  the cause of the last failure, and whether the next    *)
(*                  attempt has started                                    *)
(*   notifications  what send_notification was called with, in order       *)
(*   executed       the steps executed, in order                           *)
(*   hist           what the steps observed of the outside world           *)
(***************************************************************************)
VARIABLES fs, dirs, clock, kind, file_path, dw, rw, hm, vr, cg, act, notifications, executed, hist, workflows

vars == <<fs, dirs, clock, kind, file_path, dw, rw, hm, vr, cg, act, notifications, executed, hist, workflows>>

NONE == <<>>

DwIdle ==
  [pc |-> "idle", validation |-> NONE, backup_result |-> NONE, conflicts |-> NONE,
   deploy_result |-> NONE, test_result |-> NONE, results |-> <<>>, rollback |-> NONE,
   msg |-> NONE, result |-> NONE, error |-> "none"]

RwIdle ==
  [pc |-> "idle", current_file |-> NONE, input_backup_file |-> NONE, teardown |-> NONE,
   backup_file |-> NONE, deploy |-> NONE, tests |-> NONE, msg |-> NONE, result |-> NONE]

HmIdle == [pc |-> "idle", check_count |-> 0, failure_count |-> 0, result |-> [report |-> <<>>, has_failures |-> FALSE],
           analysis |-> <<>>, log |-> <<>>]

VrIdle == [pc |-> "idle", obs |-> ObsNone, verdicts |-> <<>>, report |-> <<>>]

CgIdle == [services |-> [json |-> "objects", svc_list |-> <<>>, error |-> <<>>], calls |-> <<>>]

ActIdle == [site |-> [run |-> "none", step |-> "none"], failures |-> 0, cause |-> "none", state |-> "none"]

HistInit ==
  [validate_cmd |-> "none",
   ports_checked |-> FALSE, ports_file_exists |-> FALSE, doc |-> DocNoPorts, occupied |-> {},
   deploy_cmd |-> "none", dw_checks |-> <<>>,
   rb_resolved |-> FALSE, rb_candidates |-> {}, rb_backup_file |-> NONE, restarts |-> 0, rebuilt_at |-> 0, timeouts |-> 0, env_steps |-> 0,
   cancelled |-> FALSE, steps_at_cancel |-> 0,
   rb_deploy_cmd |-> "none", rb_checks |-> <<>>]

Step(run, step) == [run |-> run, step |-> step]
Notification(run, message) == [run |-> run, message |-> message]

\* [v.status for v in verdicts]
Statuses(verdicts) == [i \in 1..Len(verdicts) |-> verdicts[i].status]

\* How the deploy step's command sequence ended
DeployOutcome(exists, v, r) ==
  IF ~exists THEN "not_found" ELSE IF ~v.success THEN "invalid" ELSE IF r.success THEN "ok" ELSE "up_failed"

(***************************************************************************)
(* temporal/workflows.py: the conditions the workflows branch on.          *)
(***************************************************************************)
\* A variant of line 57 that scans for the ERROR marker only
validation_failed_m(validation) == In(<<"E","R","R","O","R">>, validation)

\* DeployWorkflow.run, line 57
validation_failed(validation) == In(<<"E","R","R","O","R">>, validation) \/ In(<<"F","A","I","L","E","D">>, validation)

\* A variant of line 81 that looks for the word OCCUPIED only
has_real_conflicts_m(conflicts) == In(<<"O","C","C","U","P","I","E","D">>, upper(conflicts))

\* DeployWorkflow.run, line 81
has_real_conflicts(conflicts) == In(<<"O","C","C","U","P","I","E","D">>, upper(conflicts)) \/ In(<<"U+26A0">>, conflicts)

\* DeployWorkflow.run, line 98
deploy_failed(deploy_result) == In(<<"F","A","I","L","E","D">>, deploy_result) \/ In(<<"E","R","R","O","R">>, deploy_result)

\* DeployWorkflow.run, line 120, and RollbackWorkflow.run, line 279
tests_failed(test_result) == In(<<"F","A","I","L">>, upper(test_result)) /\ ~In(<<"P","A","S","S">>, upper(test_result))

(***************************************************************************)
(* DeployWorkflow.run                                                      *)
(***************************************************************************)
\* Step 1, lines 47-60
DeployValidate ==
  /\ dw.pc = "validate"
  /\ act.state # "failed"
  /\ \E r \in ConfigResults :
       LET exists == Exists(fs, dirs, file_path)
           validation == compose_validate(file_path, exists, r)
           results == Append(dw.results, <<"[","1","/","6","]"," ","V","a","l","i","d","a","t","e",":"," ">> \o Slice(validation, 100))
       IN /\ dw' = IF validation_failed(validation)
                     THEN [dw EXCEPT !.pc = "notify", !.validation = validation, !.results = results,
                                     !.msg = <<"D","E","P","L","O","Y"," ","A","B","O","R","T","E","D"," ","U+2014"," ","V","a","l","i","d","a","t","i","o","n"," ","f","a","i","l","e","d",":","\n">> \o validation]
                     ELSE [dw EXCEPT !.pc = "backup", !.validation = validation, !.results = results]
          /\ hist' = [hist EXCEPT !.validate_cmd = IF ~exists THEN "not_found" ELSE IF r.success THEN "ok" ELSE "failed"]
  /\ executed' = Append(executed, Step("Deploy", "validate_compose"))
  /\ act' = ActIdle
  /\ UNCHANGED <<workflows, cg, fs, dirs, clock, kind, file_path, rw, hm, vr, notifications>>

\* Step 2, lines 62-69, with backup_compose_file's copy
DeployBackup ==
  /\ dw.pc = "backup"
  /\ act.state # "failed"
  /\ \E copy \in CopyOutcomes :
       LET exists == Exists(fs, dirs, file_path)
           backup_result == backup_compose_file(file_path, exists, copy, clock)
       IN /\ dw' = [dw EXCEPT !.pc = "detect_conflicts", !.backup_result = backup_result,
                              !.results = Append(@, <<"[","2","/","6","]"," ","B","a","c","k","u","p",":"," ">> \o Slice(backup_result, 100))]
          /\ fs' = after_copy(fs, file_path, clock, copy)
  /\ executed' = Append(executed, Step("Deploy", "backup_compose"))
  /\ act' = ActIdle
  /\ UNCHANGED <<workflows, cg, dirs, clock, kind, file_path, rw, hm, vr, notifications, hist>>

\* Step 3, lines 71-85
DeployDetectConflicts ==
  /\ dw.pc = "detect_conflicts"
  /\ act.state # "failed"
  /\ \E doc \in Docs, occupied \in OccupiedSets :
       LET conflicts == detect_port_conflicts(file_path, Exists(fs, dirs, file_path), doc, occupied)
           results == Append(dw.results, <<"[","3","/","6","]"," ","P","o","r","t","s",":"," ">> \o Slice(conflicts, 100))
       IN /\ dw' = IF has_real_conflicts(conflicts)
                     THEN [dw EXCEPT !.pc = "notify", !.conflicts = conflicts, !.results = results,
                                     !.msg = <<"D","E","P","L","O","Y"," ","A","B","O","R","T","E","D"," ","U+2014"," ","P","o","r","t"," ","c","o","n","f","l","i","c","t","s"," ","d","e","t","e","c","t","e","d",":","\n">> \o conflicts]
                     ELSE [dw EXCEPT !.pc = "deploy", !.conflicts = conflicts, !.results = results]
          /\ hist' = [hist EXCEPT !.ports_checked = TRUE, !.ports_file_exists = Exists(fs, dirs, file_path), !.doc = doc, !.occupied = occupied]
  /\ executed' = Append(executed, Step("Deploy", "detect_conflicts"))
  /\ act' = ActIdle
  /\ UNCHANGED <<workflows, cg, fs, dirs, clock, kind, file_path, rw, hm, vr, notifications>>

\* Step 4, lines 87-98
DeployDeploy ==
  /\ dw.pc = "deploy"
  /\ act.state # "failed"
  /\ \E v \in ConfigQuietResults, r \in UpResults, ps \in PsResults :
       LET exists == Exists(fs, dirs, file_path)
           deploy_result == compose_up(file_path, exists, v, r, ps)
           results == Append(dw.results, <<"[","4","/","6","]"," ","D","e","p","l","o","y",":"," ">> \o Slice(deploy_result, 100))
       IN /\ dw' = [dw EXCEPT !.pc = IF deploy_failed(deploy_result) THEN "rollback_after_deploy" ELSE "run_tests",
                              !.deploy_result = deploy_result, !.results = results]
          /\ hist' = [hist EXCEPT !.deploy_cmd = DeployOutcome(exists, v, r)]
  /\ executed' = Append(executed, Step("Deploy", "deploy_compose"))
  /\ act' = ActIdle
  /\ UNCHANGED <<workflows, cg, fs, dirs, clock, kind, file_path, rw, hm, vr, notifications>>

\* Step 5, lines 110-120
DeployRunTests ==
  /\ dw.pc = "run_tests"
  /\ act.state # "failed"
  /\ \E obs \in ObsSamples :
       LET test_result == run_post_deploy_tests(file_path, obs, clock)
           results == Append(dw.results, <<"[","5","/","6","]"," ","T","e","s","t","s",":"," ">> \o Slice(test_result, 200))
       IN /\ dw' = IF tests_failed(test_result)
                     THEN [dw EXCEPT !.pc = "rollback_after_tests", !.test_result = test_result, !.results = results]
                     ELSE [dw EXCEPT !.pc = "notify", !.test_result = test_result, !.results = results,
                                     !.msg = <<"D","E","P","L","O","Y","M","E","N","T"," ","S","U","C","C","E","S","S","F","U","L","\n","\n">> \o Join(results, NL)
                                             \o <<"\n","\n","T","e","s","t"," ","R","e","s","u","l","t","s",":","\n">> \o test_result]
          /\ hist' = [hist EXCEPT !.dw_checks = Statuses(check_verdicts(obs))]
  /\ executed' = Append(executed, Step("Deploy", "run_tests"))
  /\ act' = ActIdle
  /\ UNCHANGED <<workflows, cg, fs, dirs, clock, kind, file_path, rw, hm, vr, notifications>>

\* execute_child_workflow(RollbackWorkflow.run, RollbackInput(current_file=file_path)),
\* lines 101-105 and 123-127: the child run starts
DeployStartRollback ==
  /\ dw.pc \in {"rollback_after_deploy", "rollback_after_tests"}
  /\ rw.pc = "idle"
  /\ rw' = [RwIdle EXCEPT !.pc = "teardown", !.current_file = file_path, !.input_backup_file = <<>>]
  /\ executed' = Append(executed, Step("Deploy", "RollbackWorkflow"))
  /\ UNCHANGED <<workflows, cg, act, fs, dirs, clock, kind, file_path, dw, hm, vr, notifications, hist>>

\* The child run returned, lines 106 and 128
DeployRollbackReturned ==
  /\ dw.pc \in {"rollback_after_deploy", "rollback_after_tests"}
  /\ rw.pc = "done"
  /\ dw' = [dw EXCEPT !.pc = "notify", !.rollback = rw.result,
                      !.msg = IF dw.pc = "rollback_after_deploy"
                                THEN <<"D","E","P","L","O","Y"," ","F","A","I","L","E","D"," ","U+2014"," ","A","u","t","o","-","r","o","l","l","b","a","c","k"," ","t","r","i","g","g","e","r","e","d",":","\n">> \o dw.deploy_result
                                     \o <<"\n","\n","R","o","l","l","b","a","c","k"," ","r","e","s","u","l","t",":","\n">> \o rw.result
                                ELSE <<"D","E","P","L","O","Y"," ","F","A","I","L","E","D"," ","(","t","e","s","t","s",")"," ","U+2014"," ","A","u","t","o","-","r","o","l","l","b","a","c","k"," ","t","r","i","g","g","e","r","e","d",":","\n">> \o dw.test_result
                                     \o <<"\n","\n","R","o","l","l","b","a","c","k",":","\n">> \o rw.result]
  /\ UNCHANGED <<workflows, cg, act, fs, dirs, clock, kind, file_path, rw, hm, vr, notifications, executed, hist>>

\* _notify(msg); return msg: lines 59-60, 84-85, 107-108, 129-130, 135-138, 140-146
DeployNotify ==
  /\ dw.pc = "notify"
  /\ act.state # "failed"
  /\ notifications' = Append(notifications, Notification("Deploy", Slice(dw.msg, 500)))
  /\ executed' = Append(executed, Step("Deploy", "send_notification"))
  /\ dw' = [dw EXCEPT !.pc = "done", !.result = dw.msg]
  /\ act' = ActIdle
  /\ UNCHANGED <<workflows, cg, fs, dirs, clock, kind, file_path, rw, hm, vr, hist>>

(***************************************************************************)
(* RollbackWorkflow.run                                                    *)
(***************************************************************************)
\* Line 247: Path(input.current_file).parent.parent / "backups"
backup_dir(current_file) == PathJoin(Parent(Parent(current_file)), <<"b","a","c","k","u","p","s">>)

\* A variant of line 249 that globs every file of the directory
backups_in_m(files, dir) == {q \in DOMAIN files : Parent(q) = dir}

\* Line 249: backup_dir.glob("*.yml")
backups_in(files, dir) == {q \in DOMAIN files : Parent(q) = dir /\ EndsWith(PathName(q), <<".","y","m","l">>)}

\* Lines 248-251: the files sorted(..., key=st_mtime, reverse=True) can put
\* first; glob's order decides among equal mtimes.
latest_backups(files, directories, current_file) ==
  IF backup_dir(current_file) \in directories
    THEN {q \in backups_in(files, backup_dir(current_file)) :
            \A o \in backups_in(files, backup_dir(current_file)) : files[o] <= files[q]}
    ELSE {}

\* A resolution that looks into the backup directory first and falls back
\* to the backup named in the input
backup_targets_m(input_backup_file, files, directories, current_file) ==
  IF latest_backups(files, directories, current_file) # {}
    THEN latest_backups(files, directories, current_file)
  ELSE {input_backup_file}

\* Lines 242-251: the values backup_file can have at line 253
backup_targets(input_backup_file, files, directories, current_file) ==
  IF input_backup_file # <<>> THEN {input_backup_file}
  ELSE IF latest_backups(files, directories, current_file) # {}
    THEN latest_backups(files, directories, current_file)
  ELSE {<<>>}

\* Step 1, lines 233-239
RollbackTeardown ==
  /\ rw.pc = "teardown"
  /\ act.state # "failed"
  /\ \E r \in DownResults :
       rw' = [rw EXCEPT !.pc = "resolve_backup",
                        !.teardown = compose_down(rw.current_file, Exists(fs, dirs, rw.current_file), r)]
  /\ executed' = Append(executed, Step("Rollback", "teardown_compose"))
  /\ act' = ActIdle
  /\ UNCHANGED <<workflows, cg, fs, dirs, clock, kind, file_path, dw, hm, vr, notifications, hist>>

\* Line 253: `if not backup_file`
no_backup(backup_file) == backup_file = <<>>

\* Step 2, lines 241-254
RollbackResolveBackup ==
  /\ rw.pc = "resolve_backup"
  /\ \E backup_file \in backup_targets(rw.input_backup_file, fs, dirs, rw.current_file) :
       /\ rw' = IF no_backup(backup_file)
                  THEN [rw EXCEPT !.pc = "notify_failed", !.backup_file = backup_file,
                                  !.msg = <<"R","O","L","L","B","A","C","K"," ","F","A","I","L","E","D",":"," ","N","o"," ","b","a","c","k","u","p"," ","f","i","l","e"," ","f","o","u","n","d">>]
                  ELSE [rw EXCEPT !.pc = "deploy", !.backup_file = backup_file]
       /\ hist' = [hist EXCEPT !.rb_resolved = TRUE, !.rb_backup_file = backup_file,
                               !.rb_candidates = {q \in DOMAIN fs : Parent(q) = backup_dir(rw.current_file)
                                                                    /\ backup_dir(rw.current_file) \in dirs}]
  /\ UNCHANGED <<workflows, cg, act, fs, dirs, clock, kind, file_path, dw, hm, vr, notifications, executed>>

\* Step 3, lines 261-268
RollbackDeploy ==
  /\ rw.pc = "deploy"
  /\ act.state # "failed"
  /\ \E v \in ConfigQuietResults, r \in UpResults, ps \in PsResults :
       LET exists == Exists(fs, dirs, rw.backup_file)
       IN /\ rw' = [rw EXCEPT !.pc = "run_tests", !.deploy = compose_up(rw.backup_file, exists, v, r, ps)]
          /\ hist' = [hist EXCEPT !.rb_deploy_cmd = DeployOutcome(exists, v, r)]
  /\ executed' = Append(executed, Step("Rollback", "deploy_compose"))
  /\ act' = ActIdle
  /\ UNCHANGED <<workflows, cg, fs, dirs, clock, kind, file_path, dw, hm, vr, notifications>>

\* Step 5, lines 278-282: the message of a rollback that deployed a backup
rollback_msg(backup_file, teardown, deploy, tests) ==
  IF tests_failed(tests)
  THEN <<"R","O","L","L","B","A","C","K"," ","C","R","I","T","I","C","A","L",":"," ","B","a","c","k","u","p"," ","d","e","p","l","o","y","m","e","n","t"," ","a","l","s","o"," ","f","a","i","l","i","n","g","!","\n","T","e","a","r","d","o","w","n",":"," ">>
    \o Slice(teardown, 100) \o <<"\n","D","e","p","l","o","y",":"," ">> \o Slice(deploy, 100)
    \o <<"\n","T","e","s","t","s",":"," ">> \o Slice(tests, 200)
  ELSE <<"R","O","L","L","B","A","C","K"," ","S","U","C","C","E","S","S","F","U","L","\n","B","a","c","k","u","p",":"," ">> \o backup_file
    \o <<"\n","T","e","a","r","d","o","w","n",":"," ">> \o Slice(teardown, 100)
    \o <<"\n","D","e","p","l","o","y",":"," ">> \o Slice(deploy, 100)
    \o <<"\n","T","e","s","t","s",":"," ">> \o Slice(tests, 100)

\* Steps 4 and 5, lines 270-282
RollbackRunTests ==
  /\ rw.pc = "run_tests"
  /\ act.state # "failed"
  /\ \E obs \in ObsSamples :
       LET tests == run_post_deploy_tests(rw.backup_file, obs, clock)
       IN /\ rw' = [rw EXCEPT !.pc = "notify", !.tests = tests,
                              !.msg = rollback_msg(rw.backup_file, rw.teardown, rw.deploy, tests)]
          /\ hist' = [hist EXCEPT !.rb_checks = Statuses(check_verdicts(obs))]
  /\ executed' = Append(executed, Step("Rollback", "run_tests"))
  /\ act' = ActIdle
  /\ UNCHANGED <<workflows, cg, fs, dirs, clock, kind, file_path, dw, hm, vr, notifications>>

\* Lines 255-259 (the message as it is) and 284-290 (msg[:500])
RollbackNotify ==
  /\ rw.pc \in {"notify_failed", "notify"}
  /\ act.state # "failed"
  /\ notifications' = Append(notifications,
                             Notification("Rollback", IF rw.pc = "notify_failed" THEN rw.msg ELSE Slice(rw.msg, 500)))
  /\ executed' = Append(executed, Step("Rollback", "send_notification"))
  /\ rw' = [rw EXCEPT !.pc = "done", !.result = rw.msg]
  /\ act' = ActIdle
  /\ UNCHANGED <<workflows, cg, fs, dirs, clock, kind, file_path, dw, hm, vr, hist>>

(***************************************************************************)
(* The environment: the compose file is a shared resource, and another      *)
(* process may remove it while a run is in progress.                       *)
(***************************************************************************)
RunActive == dw.pc \notin {"idle", "done"} \/ rw.pc \notin {"idle", "done"}

EnvRemoveComposeFile ==
  /\ RunActive
  /\ file_path \in DOMAIN fs
  /\ fs' = [q \in DOMAIN fs \ {file_path} |-> fs[q]]
  /\ UNCHANGED <<workflows, cg, act, dirs, clock, kind, file_path, dw, rw, hm, vr, notifications, executed, hist>>

(***************************************************************************)
(* Initial states and the specification of the Deploy and Rollback runs.   *)
(***************************************************************************)
Notes == PathJoin(BACKUPS_DIR, <<"R","E","A","D","M","E",".","t","x","t">>)
SeedEmpty == [q \in {Notes} |-> 1]
SeedTwo == [q \in {Notes, OldBackup1, OldBackup2} |-> IF q = OldBackup2 THEN 2 ELSE 1]
BackupSeeds == {SeedEmpty, SeedTwo}

\* The file system with the compose file f (present or not) and a seed of backups
FileSystem(f, present, seed) ==
  [q \in DOMAIN seed \cup (IF present THEN {f} ELSE {}) |-> IF q \in DOMAIN seed THEN seed[q] ELSE 5]

Directories == {BASE_DIR, COMPOSE_DIR, BACKUPS_DIR, <<"/","s","r","v">>}

\* client.py: start_deploy(file_path), start_rollback(current_file, backup_file)
Init ==
  /\ file_path \in ComposeFiles
  /\ \E present \in BOOLEAN, seed \in BackupSeeds : fs = FileSystem(file_path, present, seed)
  /\ dirs = Directories
  /\ clock = 0
  /\ kind \in {"Deploy", "Rollback"}
  /\ dw = IF kind = "Deploy" THEN [DwIdle EXCEPT !.pc = "validate"] ELSE DwIdle
  /\ \E explicit \in {<<>>, OldBackup2, MissingBackup} :
       rw = IF kind = "Rollback"
              THEN [RwIdle EXCEPT !.pc = "teardown", !.current_file = file_path, !.input_backup_file = explicit]
              ELSE RwIdle
  /\ hm = HmIdle
  /\ vr = VrIdle
  /\ cg = CgIdle
  /\ act = ActIdle
  /\ notifications = <<>>
  /\ executed = <<>>
  /\ hist = HistInit
  /\ workflows = {}

Next ==
  \/ DeployValidate
  \/ DeployBackup
  \/ DeployDetectConflicts
  \/ DeployDeploy
  \/ DeployRunTests
  \/ DeployStartRollback
  \/ DeployRollbackReturned
  \/ DeployNotify
  \/ RollbackTeardown
  \/ RollbackResolveBackup
  \/ RollbackDeploy
  \/ RollbackRunTests
  \/ RollbackNotify
  \/ EnvRemoveComposeFile

Spec == Init /\ [][Next]_vars

(***************************************************************************)
(* Failing steps.  workflow.execute_activity runs an activity in attempts: *)
(* an attempt completes with the activity's result (the actions above) or  *)
(* fails, by exceeding start_to_close_timeout or by raising.  A failed     *)
(* attempt is followed by another one as long as the retry policy of the   *)
(* call allows; a call without retry_policy gets the default policy of the *)
(* engine, which does not limit the attempts.  When the policy is          *)
(* exhausted the await raises ActivityError in the workflow; no workflow   *)
(* of the repository catches it, so the run fails.                         *)
(***************************************************************************)
\* The failed attempts of one call are counted up to this number.
MaxAttempts == 3

\* The activity DeployWorkflow.run waits for at each await, lines 49-54,
\* 64-68, 73-77, 89-95, 112-117, 142-146
DeployActivityAt ==
  [validate |-> "validate_compose", backup |-> "backup_compose", detect_conflicts |-> "detect_conflicts",
   deploy |-> "deploy_compose", run_tests |-> "run_tests", notify |-> "send_notification"]

\* The activity RollbackWorkflow.run waits for at each await, lines 235-239,
\* 255-258, 263-267, 272-276, 284-288
RollbackActivityAt ==
  [teardown |-> "teardown_compose", notify_failed |-> "send_notification", deploy |-> "deploy_compose",
   run_tests |-> "run_tests", notify |-> "send_notification"]

\* The activity call a run is waiting for (a Deploy run that waits for its
\* child Rollback run waits for no activity)
Waiting ==
  IF rw.pc \in DOMAIN RollbackActivityAt THEN {Step("Rollback", RollbackActivityAt[rw.pc])}
  ELSE IF dw.pc \in DOMAIN DeployActivityAt THEN {Step("Deploy", DeployActivityAt[dw.pc])}
  ELSE {}

\* retry_policy.maximum_attempts of the call (0: not limited): lines 53 and
\* 94 pass RetryPolicy(maximum_attempts=2), the other calls of the Deploy and
\* Rollback runs pass no retry_policy.
maximum_attempts(site) ==
  IF site.run = "Deploy" /\ site.step \in {"validate_compose", "deploy_compose"} THEN 2 ELSE 0

\* How an attempt fails
AttemptFailures == {"timeout", "raised"}

\* send_notification_activity, activities.py lines 183-192: what the call a
\* run waits for at site logs
pending_message(site) ==
  IF site.run = "Deploy" THEN Slice(dw.msg, 500)
  ELSE IF rw.pc = "notify_failed" THEN rw.msg ELSE Slice(rw.msg, 500)

\* The attempts of one run that end by a timeout are followed up to this
\* number.
MaxTimeouts == 1

\* The seconds after which the engine ends an attempt that does not return:
\* start_to_close_timeout of the call, or its heartbeat_timeout where the
\* call declares one (lines 93, 116, 266), the activity sending its one
\* heartbeat of the work when it starts (activities.py lines 102, 128)
attempt_timeout(site) ==
  IF site.step = "send_notification" THEN 10
  ELSE IF site.step = "deploy_compose" THEN 60
  ELSE IF site.step = "teardown_compose" THEN 120
  ELSE IF site.step = "run_tests" THEN (IF site.run = "Deploy" THEN 120 ELSE 180)
  ELSE 30

\* An attempt at the activity a run waits for fails.  An attempt that raises
\* fails before the tool has acted.  An attempt that is timed out ends
\* attempt_timeout seconds after it started and may have run the activity
\* function, whose result is discarded and whose effect stays:
\* backup_compose_file has copied (or failed to copy) the file under the
\* name of the time it ran at, send_notification_activity has logged the
\* message.
ActivityAttemptFails ==
  /\ act.state # "failed"
  /\ \E site \in Waiting, cause \in AttemptFailures :
       /\ cause = "timeout" => hist.timeouts < MaxTimeouts
       /\ act' = [site |-> site, failures |-> Min(act.failures + 1, MaxAttempts), cause |-> cause, state |-> "failed"]
       /\ clock' = IF cause = "timeout" THEN clock + attempt_timeout(site) ELSE clock
       /\ hist' = IF cause = "timeout" THEN [hist EXCEPT !.timeouts = @ + 1] ELSE hist
       /\ IF cause = "timeout" /\ site.step = "backup_compose"
            THEN \E copy \in CopyOutcomes : fs' = after_copy(fs, file_path, clock, copy)
            ELSE fs' = fs
       /\ IF cause = "timeout" /\ site.step = "send_notification"
            THEN \E ran \in BOOLEAN :
                   notifications' = IF ran THEN Append(notifications, Notification(site.run, pending_message(site)))
                                    ELSE notifications
            ELSE notifications' = notifications
  /\ UNCHANGED <<workflows, cg, dirs, kind, file_path, dw, rw, hm, vr, executed>>

\* The retry policy allows another attempt: it starts
ActivityRetry ==
  /\ act.state = "failed"
  /\ maximum_attempts(act.site) = 0 \/ act.failures < maximum_attempts(act.site)
  /\ act' = [act EXCEPT !.state = "retrying"]
  /\ UNCHANGED <<workflows, cg, fs, dirs, clock, kind, file_path, dw, rw, hm, vr, notifications, executed, hist>>

\* The retry policy is exhausted: ActivityError leaves the await of
\* DeployWorkflow.run (lines 49 and 89; the calls of RollbackWorkflow.run
\* have no limit) and nothing catches it
DeployActivityError ==
  /\ act.state = "failed"
  /\ act.site.run = "Deploy"
  /\ maximum_attempts(act.site) # 0
  /\ act.failures >= maximum_attempts(act.site)
  /\ dw' = [dw EXCEPT !.pc = "failed", !.error = act.site.step]
  /\ act' = ActIdle
  /\ UNCHANGED <<workflows, cg, fs, dirs, clock, kind, file_path, rw, hm, vr, notifications, executed, hist>>

\* client.py: start_deploy(file_path), for the compose file outside
\* COMPOSE_DIR: a Rollback run spawned for it finds no backup directory, so
\* its steps are teardown, the resolution of the backup and the notification.
InitSteps ==
  /\ file_path = FileElsewhere
  /\ \E present \in BOOLEAN : fs = FileSystem(file_path, present, SeedTwo)
  /\ dirs = Directories
  /\ clock = 0
  /\ kind = "Deploy"
  /\ dw = [DwIdle EXCEPT !.pc = "validate"]
  /\ rw = RwIdle
  /\ hm = HmIdle
  /\ vr = VrIdle
  /\ cg = CgIdle
  /\ act = ActIdle
  /\ notifications = <<>>
  /\ executed = <<>>
  /\ hist = HistInit
  /\ workflows = {}

NextSteps ==
  \/ DeployValidate
  \/ DeployBackup
  \/ DeployDetectConflicts
  \/ DeployDeploy
  \/ DeployRunTests
  \/ DeployStartRollback
  \/ DeployRollbackReturned
  \/ DeployNotify
  \/ RollbackTeardown
  \/ RollbackResolveBackup
  \/ RollbackNotify
  \/ ActivityAttemptFails
  \/ ActivityRetry
  \/ DeployActivityError

SpecSteps == InitSteps /\ [][NextSteps]_vars

\* The engine keeps scheduling: a backup attempt that stays possible
\* completes, a failed attempt is followed by the next one while the policy
\* allows, and an exhausted policy ends the run.  Nothing is assumed about
\* which attempts fail.
SpecStepsLive ==
  /\ InitSteps
  /\ [][NextSteps]_vars
  /\ WF_vars(DeployBackup)
  /\ WF_vars(ActivityRetry)
  /\ WF_vars(DeployActivityError)


(***************************************************************************)
(* A Rollback run across a restart of the worker process.                  *)
(*                                                                         *)
(* The engine keeps, per run, the history of the activities it scheduled   *)
(* and of their results.  A worker that has no run in memory rebuilds it   *)
(* by executing run() again from its first line: an await whose activity   *)
(* is in the history returns the recorded result without executing the     *)
(* activity, and every other statement of run() is executed again.  In     *)
(* RollbackWorkflow.run the statements of lines 242-251 are such           *)
(* statements: they read the backup directory as it is at that moment.     *)
(* When the rebuilt run asks for an activity other than the one the        *)
(* history holds at that place, the engine rejects the workflow task and   *)
(* the run makes no further progress.                                      *)
(***************************************************************************)
\* The restarts of the worker during one run are counted up to this number.
MaxRestarts == 2

\* The changes others make to the backup directory during one run are
\* followed up to this number.
MaxEnvSteps == 1

\* While the run is suspended at one of its awaits, another Deploy run of
\* the same compose file makes its backup, there being none of this second
\* yet (backup_compose_file, lines 636-675): shutil.copy2 writes the copy with the modification time of the
\* source, or fails after it has created the destination, or fails without
\* having created it (which leaves the directory as it is)
EnvBackupCreated ==
  /\ rw.pc \in DOMAIN RollbackActivityAt
  /\ hist.env_steps < MaxEnvSteps
  /\ rw.current_file \in DOMAIN fs
  /\ backup_path(rw.current_file, clock) \notin DOMAIN fs
  /\ \E copy \in CopyOutcomes : fs' = after_copy(fs, rw.current_file, clock, copy)
  /\ hist' = [hist EXCEPT !.env_steps = @ + 1]
  /\ UNCHANGED <<workflows, cg, act, dirs, clock, kind, file_path, dw, rw, hm, vr, notifications, executed>>

\* While the run is suspended at one of its awaits, a backup is removed from
\* the backup directory
EnvBackupRemoved ==
  /\ rw.pc \in DOMAIN RollbackActivityAt
  /\ hist.env_steps < MaxEnvSteps
  /\ \E q \in backups_in(fs, backup_dir(rw.current_file)) :
       fs' = [o \in DOMAIN fs \ {q} |-> fs[o]]
  /\ hist' = [hist EXCEPT !.env_steps = @ + 1]
  /\ UNCHANGED <<workflows, cg, act, dirs, clock, kind, file_path, dw, rw, hm, vr, notifications, executed>>

\* The worker restarted while the run was suspended at the await of lines
\* 263-268 or 272-276, and the result of that activity is handled by a
\* worker that rebuilds the run: teardown, deploy and tests are the recorded
\* results, backup_file is what lines 242-251 yield now, and the activity
\* lines 253-268 ask for is compared with the recorded one.
RollbackRestart ==
  /\ rw.pc \in {"run_tests", "notify"}
  /\ hist.restarts < MaxRestarts
  /\ \E backup_file \in backup_targets(rw.input_backup_file, fs, dirs, rw.current_file) :
       rw' = IF no_backup(backup_file) # no_backup(hist.rb_backup_file)
               THEN [rw EXCEPT !.pc = "nondeterminism", !.backup_file = backup_file]
               ELSE [rw EXCEPT !.backup_file = backup_file,
                               !.msg = IF rw.pc = "notify"
                                         THEN rollback_msg(backup_file, rw.teardown, rw.deploy, rw.tests)
                                         ELSE rw.msg]
  /\ hist' = [hist EXCEPT !.restarts = @ + 1]
  /\ UNCHANGED <<workflows, cg, act, fs, dirs, clock, kind, file_path, dw, hm, vr, notifications, executed>>

\* The worker restarted while the run was suspended at the await of lines
\* 255-258 or 284-288: send_notification is executed with the message of the
\* first execution, and its result is handled by a worker that rebuilds the
\* run.  The rebuilt run executes lines 242-251 again; when it asks for the
\* recorded activities it returns the message lines 278-282 yield for the
\* backup_file it has now.
RollbackRestartInNotify ==
  /\ rw.pc \in {"notify_failed", "notify"}
  /\ act.state # "failed"
  /\ hist.restarts < MaxRestarts
  /\ notifications' = Append(notifications,
                             Notification("Rollback", IF rw.pc = "notify_failed" THEN rw.msg ELSE Slice(rw.msg, 500)))
  /\ executed' = Append(executed, Step("Rollback", "send_notification"))
  /\ \E backup_file \in backup_targets(rw.input_backup_file, fs, dirs, rw.current_file) :
       rw' = IF no_backup(backup_file) # no_backup(hist.rb_backup_file)
               THEN [rw EXCEPT !.pc = "nondeterminism", !.backup_file = backup_file]
             ELSE IF rw.pc = "notify_failed"
               THEN [rw EXCEPT !.pc = "done", !.backup_file = backup_file, !.result = rw.msg]
             ELSE [rw EXCEPT !.pc = "done", !.backup_file = backup_file,
                             !.msg = rollback_msg(backup_file, rw.teardown, rw.deploy, rw.tests),
                             !.result = rollback_msg(backup_file, rw.teardown, rw.deploy, rw.tests)]
  /\ hist' = [hist EXCEPT !.restarts = @ + 1]
  /\ act' = ActIdle
  /\ UNCHANGED <<workflows, cg, fs, dirs, clock, kind, file_path, dw, hm, vr>>

\* client.py: start_rollback(current_file, backup_file) for a compose file
\* of COMPOSE_DIR
InitRestart ==
  /\ file_path = FileInComposeDir
  /\ \E seed \in BackupSeeds : fs = FileSystem(file_path, TRUE, seed)
  /\ dirs = Directories
  /\ clock = 0
  /\ kind = "Rollback"
  /\ dw = DwIdle
  /\ \E explicit \in {<<>>, OldBackup2} :
       rw = [RwIdle EXCEPT !.pc = "teardown", !.current_file = file_path, !.input_backup_file = explicit]
  /\ hm = HmIdle
  /\ vr = VrIdle
  /\ cg = CgIdle
  /\ act = ActIdle
  /\ notifications = <<>>
  /\ executed = <<>>
  /\ hist = HistInit
  /\ workflows = {}

NextRestart ==
  \/ RollbackTeardown
  \/ RollbackResolveBackup
  \/ RollbackDeploy
  \/ RollbackRunTests
  \/ RollbackNotify
  \/ EnvBackupCreated
  \/ EnvBackupRemoved
  \/ RollbackRestart
  \/ RollbackRestartInNotify

SpecRestart == InitRestart /\ [][NextRestart]_vars


(***************************************************************************)
(* tools/docker_tools.py and the health_check activity.                    *)
(***************************************************************************)
TAB == <<"\t">>

\* health_check_all, lines 216-226: the report lines of the rows of
\* `docker ps`; inspect maps a container id to the result of its inspect.
RECURSIVE health_rows(_, _)
health_rows(lines, inspect) ==
  IF Len(lines) = 0 THEN <<>>
  ELSE LET parts == Split(Head(lines), TAB)
           health_status == IF inspect[parts[1]].success THEN inspect[parts[1]].stdout ELSE <<"u","n","k","n","o","w","n">>
       IN (IF Len(parts) >= 3
             THEN <<<<" "," ">> \o parts[2] \o <<":"," ","s","t","a","t","u","s","=">> \o parts[3] \o <<","," ","h","e","a","l","t","h","=">> \o health_status>>
             ELSE <<>>)
          \o health_rows(Tail(lines), inspect)

\* health_check_all(): ps is the result of `docker ps --format ...`
health_check_all(ps, inspect) ==
  IF ~ps.success THEN <<"E","R","R","O","R",":"," ","C","o","u","l","d"," ","n","o","t"," ","l","i","s","t"," ","c","o","n","t","a","i","n","e","r","s"," ","f","o","r"," ","h","e","a","l","t","h"," ","c","h","e","c","k",".","\n">> \o ps.stderr
  ELSE IF Len(ps.stdout) = 0 THEN <<"N","o"," ","r","u","n","n","i","n","g"," ","c","o","n","t","a","i","n","e","r","s"," ","f","o","u","n","d",".">>
  ELSE Join(<<<<"U+2501","U+2501"," ","H","E","A","L","T","H"," ","C","H","E","C","K"," ","R","E","P","O","R","T"," ","U+2501","U+2501","U+2501","U+2501","U+2501","U+2501","U+2501","U+2501","U+2501","U+2501","U+2501","U+2501","U+2501","U+2501","U+2501","U+2501","U+2501">>>> \o health_rows(Split(Strip(ps.stdout), NL), inspect) \o <<<<"U+2501","U+2501","U+2501","U+2501","U+2501","U+2501","U+2501","U+2501","U+2501","U+2501","U+2501","U+2501","U+2501","U+2501","U+2501","U+2501","U+2501","U+2501","U+2501","U+2501","U+2501","U+2501","U+2501","U+2501","U+2501","U+2501","U+2501","U+2501","U+2501","U+2501","U+2501","U+2501","U+2501","U+2501","U+2501","U+2501","U+2501","U+2501","U+2501">>>>, NL)

\* health_check_activity, lines 146-147
health_check(ps, inspect) ==
  LET report == health_check_all(ps, inspect)
  IN [report |-> report, has_failures |-> In(<<"u","n","h","e","a","l","t","h","y">>, lower(report)) \/ In(<<"e","r","r","o","r">>, lower(report))]

\* What `docker ps` and `docker inspect` can report of the two containers
CidWeb == <<"3","f","2","a">>
CidDb == <<"9","c","4","1">>
PsTwoUp == CmdOk(<<"3","f","2","a","\t","a","p","p","-","w","e","b","-","1","\t","U","p"," ","2"," ","m","i","n","u","t","e","s","\n","9","c","4","1","\t","a","p","p","-","d","b","-","1","\t","U","p"," ","2"," ","m","i","n","u","t","e","s">>, <<>>)
HealthInputs ==
  {[ps |-> PsTwoUp, inspect |-> [c \in {CidWeb, CidDb} |-> CmdOk(<<"h","e","a","l","t","h","y">>, <<>>)]],
   [ps |-> PsTwoUp, inspect |-> [c \in {CidWeb, CidDb} |-> IF c = CidDb THEN CmdOk(<<"u","n","h","e","a","l","t","h","y">>, <<>>) ELSE CmdOk(<<"h","e","a","l","t","h","y">>, <<>>)]],
   [ps |-> CmdFail(<<"C","a","n","n","o","t"," ","c","o","n","n","e","c","t"," ","t","o"," ","t","h","e"," ","D","o","c","k","e","r"," ","d","a","e","m","o","n">>), inspect |-> [c \in {CidWeb, CidDb} |-> CmdFail(<<>>)]]}

\* What the diagnostic assistant answers
AnalysisSample == <<"T","h","e"," ","d","a","t","a","b","a","s","e"," ","c","o","n","t","a","i","n","e","r"," ","f","a","i","l","s"," ","i","t","s"," ","h","e","a","l","t","h","c","h","e","c","k",";"," ","r","e","s","t","a","r","t"," ","a","p","p","-","d","b","-","1",".">>

(***************************************************************************)
(* HealthMonitorWorkflow.run                                               *)
(***************************************************************************)
\* Line 168
max_checks == 1440

\* hm.log has one entry per iteration: whether the check was failing, and
\* whether the alert and the diagnosis were executed in that iteration.
LogEntry(failing) == [failing |-> failing, alert |-> FALSE, diagnosis |-> FALSE, diagnosis_sent |-> FALSE]

\* A variant of line 194 that waits for more than three failures
analysis_due_m(failure_count) == failure_count > 3

\* Line 194: the condition that triggers the analysis
analysis_due(failure_count) == failure_count >= 3

\* Line 186: the condition that triggers the alert
alert_due(failure_count) == failure_count = 1

\* A variant of line 170 that admits one more iteration
loop_continues_m(check_count) == check_count <= max_checks

\* Line 170: `while check_count < max_checks`
loop_continues(check_count) == check_count < max_checks

\* Lines 181-182 and 207-208: failure_count after the test of the result
\* of the check
counted(has_failures, failure_count) == IF has_failures THEN failure_count + 1 ELSE 0

\* Lines 170-186 and 207-208: the loop head, the health check and the
\* counter, for the results the check can give
HealthCheckOf(inputs) ==
  /\ hm.pc = "check"
  /\ loop_continues(hm.check_count)
  /\ \E in \in inputs :
       LET result == health_check(in.ps, in.inspect)
           failure_count == counted(result.has_failures, hm.failure_count)
       IN hm' = [hm EXCEPT !.check_count = @ + 1, !.result = result, !.failure_count = failure_count,
                           !.log = Append(@, LogEntry(result.has_failures)),
                           !.pc = IF ~result.has_failures THEN "sleep"
                                  ELSE IF alert_due(failure_count) THEN "alert"
                                  ELSE IF analysis_due(failure_count) THEN "analyze"
                                  ELSE "sleep"]
  /\ executed' = Append(executed, Step("HealthMonitor", "health_check"))
  /\ UNCHANGED <<workflows, cg, act, fs, dirs, clock, kind, file_path, dw, rw, vr, notifications, hist>>

\* The health check of a run that is followed for MaxChecks iterations
HealthCheckStep ==
  /\ hm.check_count < MaxChecks
  /\ HealthCheckOf(HealthInputs)

\* Lines 186-191
HealthAlert ==
  /\ hm.pc = "alert"
  /\ notifications' = Append(notifications,
        Notification("HealthMonitor", <<"H","E","A","L","T","H"," ","A","L","E","R","T",":"," ","U","n","h","e","a","l","t","h","y"," ","c","o","n","t","a","i","n","e","r","s"," ","d","e","t","e","c","t","e","d","!","\n">> \o Slice(hm.result.report, 300)))
  /\ executed' = Append(executed, Step("HealthMonitor", "send_notification"))
  /\ hm' = [hm EXCEPT !.log[Len(hm.log)].alert = TRUE,
                      !.pc = IF analysis_due(hm.failure_count) THEN "analyze" ELSE "sleep"]
  /\ UNCHANGED <<workflows, cg, act, fs, dirs, clock, kind, file_path, dw, rw, vr, hist>>

\* Lines 194-200 with agent_analyze_activity, activities.py lines 164-180:
\* an attempt at agent_analyze.  Line 176 imports container_agent, whose
\* line 32 imports trigger_temporal_deploy from tools.compose_tools; that
\* module defines no such name, so the import raises ImportError and the
\* attempt fails.  The call passes no retry_policy: the engine starts
\* attempt after attempt and the run stays suspended at the await of line
\* 196.  The failed attempts are counted up to MaxAttempts.
HealthAnalyze ==
  /\ hm.pc = "analyze"
  /\ act' = [site |-> Step("HealthMonitor", "agent_analyze"), failures |-> Min(act.failures + 1, MaxAttempts),
             cause |-> "raised", state |-> "failed"]
  /\ UNCHANGED <<workflows, cg, fs, dirs, clock, kind, file_path, dw, rw, hm, vr, notifications, executed, hist>>

\* Line 196 for an attempt at agent_analyze that returns: the await gives
\* run() the text of the diagnosis.  The diagnostic assistant is outside
\* src/ (the agent behind create_agent, and the name trigger_temporal_deploy
\* the import of container_agent needs); that it answers with a text is its
\* interface as the workflow consumes it.  No worker built from src/ alone
\* takes this step (HealthAnalyze); it belongs to SpecHealthAnswered only.
HealthAnalysisReturned ==
  /\ hm.pc = "analyze"
  /\ hm' = [hm EXCEPT !.analysis = AnalysisSample, !.log[Len(hm.log)].diagnosis = TRUE, !.pc = "notify_diagnosis"]
  /\ executed' = Append(executed, Step("HealthMonitor", "agent_analyze"))
  /\ act' = ActIdle
  /\ UNCHANGED <<workflows, cg, fs, dirs, clock, kind, file_path, dw, rw, vr, notifications, hist>>

\* Lines 201-206: the statements after the await of line 196, for an
\* analysis that was returned (HealthAnalysisReturned).
HealthNotifyDiagnosis ==
  /\ hm.pc = "notify_diagnosis"
  /\ notifications' = Append(notifications,
        Notification("HealthMonitor", <<"A","I"," ","D","I","A","G","N","O","S","I","S"," ","a","f","t","e","r"," ">> \o Str(hm.failure_count) \o <<" ","f","a","i","l","u","r","e","s",":","\n">>
                                      \o Slice(hm.analysis, 400)))
  /\ executed' = Append(executed, Step("HealthMonitor", "send_notification"))
  /\ hm' = [hm EXCEPT !.failure_count = 0, !.log[Len(hm.log)].diagnosis_sent = TRUE, !.pc = "sleep"]
  /\ UNCHANGED <<workflows, cg, act, fs, dirs, clock, kind, file_path, dw, rw, vr, hist>>

\* Lines 170 and 211-213: the timer fires; the loop goes on or the run returns
HealthSleep ==
  /\ hm.pc = "sleep"
  /\ hm' = [hm EXCEPT !.pc = IF loop_continues(hm.check_count) THEN "check" ELSE "done"]
  /\ UNCHANGED <<workflows, cg, act, fs, dirs, clock, kind, file_path, dw, rw, vr, notifications, executed, hist>>

\* client.py: start_health_monitor(interval)
InitHealth ==
  /\ file_path = FileInComposeDir
  /\ fs = FileSystem(file_path, TRUE, SeedEmpty)
  /\ dirs = Directories
  /\ clock = 0
  /\ kind = "HealthMonitor"
  /\ dw = DwIdle
  /\ rw = RwIdle
  /\ hm = [HmIdle EXCEPT !.pc = "check"]
  /\ vr = VrIdle
  /\ cg = CgIdle
  /\ act = ActIdle
  /\ notifications = <<>>
  /\ executed = <<>>
  /\ hist = HistInit
  /\ workflows = {}

NextHealth ==
  \/ HealthCheckStep
  \/ HealthAlert
  \/ HealthAnalyze
  \/ HealthSleep

SpecHealth == InitHealth /\ [][NextHealth]_vars

\* The engine keeps scheduling: a step of the run that stays possible is
\* taken, among them the next attempt at an activity.  Nothing is assumed
\* about the results of the health checks.
SpecHealthLive ==
  /\ InitHealth
  /\ [][NextHealth]_vars
  /\ WF_vars(HealthAlert)
  /\ WF_vars(HealthAnalyze)
  /\ WF_vars(HealthSleep)

(***************************************************************************)
(* The end of the horizon of a Health Monitor run: the run is followed     *)
(* from the timer of its iteration max_checks - HorizonTail, all checks so *)
(* far having been healthy, through its last HorizonTail iterations.       *)
(***************************************************************************)
\* The iterations before the end of the horizon a run is followed for
HorizonTail == 5

\* The health check of one of the last iterations
HealthCheckOverHorizon ==
  /\ hm.check_count >= max_checks - HorizonTail
  /\ HealthCheckOf(HealthInputs)

\* health_check over healthy containers, as the activity returns it
HealthyResult ==
  health_check(PsTwoUp, [c \in {CidWeb, CidDb} |-> CmdOk(<<"h","e","a","l","t","h","y">>, <<>>)])

InitHorizon ==
  /\ file_path = FileInComposeDir
  /\ fs = FileSystem(file_path, TRUE, SeedEmpty)
  /\ dirs = Directories
  /\ clock = 0
  /\ kind = "HealthMonitor"
  /\ dw = DwIdle
  /\ rw = RwIdle
  /\ hm = [HmIdle EXCEPT !.pc = "sleep", !.check_count = max_checks - HorizonTail, !.result = HealthyResult,
                         !.log = [i \in 1..(max_checks - HorizonTail) |-> LogEntry(FALSE)]]
  /\ vr = VrIdle
  /\ cg = CgIdle
  /\ act = ActIdle
  /\ notifications = <<>>
  /\ executed = [i \in 1..(max_checks - HorizonTail) |-> Step("HealthMonitor", "health_check")]
  /\ hist = HistInit
  /\ workflows = {}

NextHorizon ==
  \/ HealthCheckOverHorizon
  \/ HealthAlert
  \/ HealthAnalyze
  \/ HealthSleep

SpecHorizon == InitHorizon /\ [][NextHorizon]_vars

(***************************************************************************)
(* A Health Monitor run across a restart of the worker, and its            *)
(* cancellation.                                                           *)
(*                                                                         *)
(* hm.log is the history of the run: per iteration the recorded result of  *)
(* health_check and the activities that were scheduled after it.  A worker *)
(* that rebuilds the run executes lines 166-211 again over the recorded    *)
(* results; no activity of the history is executed again.                  *)
(***************************************************************************)
\* Lines 170-211 executed over the recorded iterations i..Len(log): the
\* counters of the rebuilt run, and whether the activities it asks for are
\* the recorded ones
RECURSIVE rebuilt(_, _, _, _)
rebuilt(log, i, check_count, failure_count) ==
  IF i > Len(log) THEN [check_count |-> check_count, failure_count |-> failure_count, deterministic |-> TRUE]
  ELSE LET failing == log[i].failing
           count == counted(failing, failure_count)
       IN IF \/ (failing /\ alert_due(count)) # log[i].alert
             \/ (failing /\ analysis_due(count)) # log[i].diagnosis
             \/ (failing /\ analysis_due(count)) # log[i].diagnosis_sent
            THEN [check_count |-> check_count + 1, failure_count |-> count, deterministic |-> FALSE]
            ELSE rebuilt(log, i + 1, check_count + 1, IF failing /\ analysis_due(count) THEN 0 ELSE count)

\* The variant of the sending in which run() awaits the notification
\* function itself (send_notification_activity(message)): the call is then
\* workflow code, which is executed again whenever the run is rebuilt
resent_on_rebuild_m(notification) == <<notification>>

\* Lines 187-191 and 201-205: run() sends a message by awaiting
\* workflow.execute_activity("send_notification", message).  The engine
\* records the completed activity in the history, and a rebuilt run that
\* comes to the same await gets the recorded completion: the activity is not
\* run again.  resent_on_rebuild(notification): what the rebuild of a run
\* sends for a notification the run has sent
resent_on_rebuild(notification) == <<>>

\* What the rebuild of a run sends, the run having sent the notifications
\* sent
RECURSIVE rebuild_sends(_)
rebuild_sends(sent) ==
  IF Len(sent) = 0 THEN <<>> ELSE resent_on_rebuild(Head(sent)) \o rebuild_sends(Tail(sent))

\* The worker restarted while the run was suspended in the timer of line
\* 211; the run is rebuilt from its history when the timer fires
HealthRestart ==
  /\ hm.pc = "sleep"
  /\ hist.restarts < MaxRestarts
  /\ LET run == rebuilt(hm.log, 1, 0, 0)
     IN hm' = [hm EXCEPT !.check_count = run.check_count, !.failure_count = run.failure_count,
                         !.pc = IF run.deterministic THEN "sleep" ELSE "nondeterminism"]
  /\ notifications' = notifications \o rebuild_sends(notifications)
  /\ hist' = [hist EXCEPT !.restarts = @ + 1, !.rebuilt_at = hm.check_count]
  /\ UNCHANGED <<workflows, cg, act, fs, dirs, clock, kind, file_path, dw, rw, vr, executed>>

\* A variant of the loop that goes on with the next check when its timer is
\* cancelled
timer_cancelled_m(pc) == "check"

\* Line 211: the cancellation is raised by `await asyncio.sleep`; nothing in
\* run() catches it, so it leaves run() and the run ends as cancelled
timer_cancelled(pc) == "cancelled"

\* client.py: the run is cancelled while it is suspended in its timer
HealthCancel ==
  /\ hm.pc = "sleep"
  /\ hm' = [hm EXCEPT !.pc = timer_cancelled(hm.pc)]
  /\ hist' = [hist EXCEPT !.cancelled = TRUE, !.steps_at_cancel = Len(executed)]
  /\ UNCHANGED <<workflows, cg, act, fs, dirs, clock, kind, file_path, dw, rw, vr, notifications, executed>>

NextHealthRestart ==
  \/ HealthCheckStep
  \/ HealthAlert
  \/ HealthAnalyze
  \/ HealthSleep
  \/ HealthRestart
  \/ HealthCancel

SpecHealthRestart == InitHealth /\ [][NextHealthRestart]_vars

(***************************************************************************)
(* A Health Monitor run whose diagnostic assistant answers: the attempts   *)
(* at agent_analyze fail as they do on a worker built from src/, or one    *)
(* returns a text (HealthAnalysisReturned) and run() goes on with lines    *)
(* 201-211.  The run is followed across restarts of the worker.            *)
(***************************************************************************)
NextHealthAnswered ==
  \/ HealthCheckStep
  \/ HealthAlert
  \/ HealthAnalyze
  \/ HealthAnalysisReturned
  \/ HealthNotifyDiagnosis
  \/ HealthSleep
  \/ HealthRestart

SpecHealthAnswered == InitHealth /\ [][NextHealthAnswered]_vars


(***************************************************************************)
(* The verification engine on its own: run_post_deploy_tests over a space  *)
(* of observations, and its aggregation over every vector of statuses.     *)
(***************************************************************************)
CacheName == <<"a","p","p","-","c","a","c","h","e","-","1">>

\* Two running instances; the parameters select the outcome of each check.
MakeObs(stopped, health, port, reach, mount_ok, env_ok, log_err, cpu) ==
  Observation(<<WebName, DbName>>,
              <<WebName, DbName>> \o (IF stopped THEN <<CacheName>> ELSE <<>>),
              <<Probe(WebName, 0, health, IF port = "none" THEN <<>> ELSE WebPort, <<DataMount>>, env_ok, log_err, cpu, 320),
                Probe(DbName, 1, <<"h","e","a","l","t","h","y">>, <<>>, <<>>, TRUE, <<>>, 100, 100)>>,
              IF port = "open" THEN {8080} ELSE {},
              IF reach THEN {DbName} ELSE {},
              IF mount_ok THEN {DataMount} ELSE {})

\* The caller names the services it expects: the two of the deployment, of
\* which one or both came up, or its only one.
ObsExpected ==
  {[ObsAllPass EXCEPT !.expected_services = <<"a","p","p","-","w","e","b","-","1",","," ","a","p","p","-","d","b","-","1">>],
   [ObsStopped EXCEPT !.expected_services = <<"a","p","p","-","w","e","b","-","1",","," ","a","p","p","-","d","b","-","1">>],
   [ObsAllPass EXCEPT !.expected_services = <<"a","p","p","-","w","e","b","-","1">>],
   [MakeObs(FALSE, <<"h","e","a","l","t","h","y">>, "open", TRUE, TRUE, TRUE, <<>>, 150) EXCEPT !.expected_services = <<"a","p","p","-","w","e","b","-","1",",","a","p","p","-","d","b","-","1">>]}

\* Instance names Compose gives in the project "app": the services db and
\* app-db, of which app-db-1 never leaves "starting"; and a healthy service
\* called timeout-proxy.
AppDbName == <<"a","p","p","-","a","p","p","-","d","b","-","1">>
ProxyName == <<"a","p","p","-","t","i","m","e","o","u","t","-","p","r","o","x","y","-","1">>
ObsNames ==
  {Observation(<<AppDbName, DbName>>, <<AppDbName, DbName>>,
               <<Probe(AppDbName, 0, <<"h","e","a","l","t","h","y">>, <<>>, <<>>, TRUE, <<>>, 100, 100),
                 Probe(DbName, 0, <<"s","t","a","r","t","i","n","g">>, <<>>, <<>>, TRUE, <<>>, 100, 100)>>,
               {}, {DbName}, {}),
   Observation(<<DbName, AppDbName>>, <<DbName, AppDbName>>,
               <<Probe(DbName, 0, <<"s","t","a","r","t","i","n","g">>, <<>>, <<>>, TRUE, <<>>, 100, 100),
                 Probe(AppDbName, 0, <<"h","e","a","l","t","h","y">>, <<>>, <<>>, TRUE, <<>>, 100, 100)>>,
               {}, {AppDbName}, {}),
   Observation(<<ProxyName>>, <<ProxyName>>,
               <<Probe(ProxyName, 2, <<"h","e","a","l","t","h","y">>, WebPort, <<>>, TRUE, <<>>, 100, 100)>>,
               {8080}, {}, {})}

\* `docker port` of an instance that publishes two ports, of one that
\* publishes a port on the IPv4 and IPv6 wildcard addresses, and of one for
\* which the command fails.
TwoPorts == <<"8","0","/","t","c","p"," ","-",">"," ","0",".","0",".","0",".","0",":","8","0","8","0","\n","4","4","3","/","t","c","p"," ","-",">"," ","0",".","0",".","0",".","0",":","8","4","4","3">>
DualStackPort == <<"8","0","/","t","c","p"," ","-",">"," ","0",".","0",".","0",".","0",":","8","0","8","0","\n","8","0","/","t","c","p"," ","-",">"," ","[",":",":","]",":","8","0","8","0">>
ObsPorts ==
  {[ObsAllPass EXCEPT !.running[1].port.stdout = TwoPorts, !.open_ports = open] : open \in SUBSET {8080, 8443}}
  \cup {[ObsAllPass EXCEPT !.running[1].port.stdout = DualStackPort, !.open_ports = open] : open \in SUBSET {8080}}
  \cup {[ObsAllPass EXCEPT !.running[1].port = [success |-> FALSE, stdout |-> <<>>]]}

ObsSpace ==
  {MakeObs(stopped, health, port, reach, mount_ok, env_ok, log_err, cpu) :
     stopped \in BOOLEAN, health \in {<<"h","e","a","l","t","h","y">>, <<"n","o"," ","h","e","a","l","t","h","c","h","e","c","k">>, <<"u","n","h","e","a","l","t","h","y">>, <<"s","t","a","r","t","i","n","g">>},
     port \in {"none", "open", "closed"}, reach \in BOOLEAN, mount_ok \in BOOLEAN, env_ok \in BOOLEAN,
     log_err \in {<<>>, <<"c","o","n","n","e","c","t","i","o","n"," ","r","e","f","u","s","e","d">>}, cpu \in {150, 7550}}
  \cup ObsSamples \cup ObsExpected \cup ObsNames \cup ObsPorts

\* run_post_deploy_tests(file_path) against an observation
VerifyRun ==
  /\ vr.pc = "start"
  /\ \E obs \in ObsSpace :
       vr' = [pc |-> "done", obs |-> obs, verdicts |-> check_verdicts(obs),
              report |-> run_post_deploy_tests(file_path, obs, clock)]
  /\ UNCHANGED <<workflows, cg, act, fs, dirs, clock, kind, file_path, dw, rw, hm, notifications, executed, hist>>

\* Lines 300-314 on an arbitrary vector of eight statuses
VerifyAggregate ==
  /\ vr.pc = "start"
  /\ \E statuses \in [1..8 -> {PASS, WARN, FAIL}] :
       vr' = [pc |-> "aggregated", obs |-> ObsNone,
              verdicts |-> [i \in 1..8 |-> Verdict(statuses[i], <<>>)],
              report |-> test_report(file_path, <<>>, [i \in 1..8 |-> Verdict(statuses[i], <<>>)], clock)]
  /\ UNCHANGED <<workflows, cg, act, fs, dirs, clock, kind, file_path, dw, rw, hm, notifications, executed, hist>>

InitVerify ==
  /\ file_path = FileInComposeDir
  /\ fs = FileSystem(file_path, TRUE, SeedEmpty)
  /\ dirs = Directories
  /\ clock = 0
  /\ kind = "Verify"
  /\ dw = DwIdle
  /\ rw = RwIdle
  /\ hm = HmIdle
  /\ vr = [VrIdle EXCEPT !.pc = "start"]
  /\ cg = CgIdle
  /\ act = ActIdle
  /\ notifications = <<>>
  /\ executed = <<>>
  /\ hist = HistInit
  /\ workflows = {}

NextVerify ==
  \/ VerifyRun
  \/ VerifyAggregate

SpecVerify == InitVerify /\ [][NextVerify]_vars

(***************************************************************************)
(* tools/compose_tools.py: compose_generate.                               *)
(* A dict is a function on its keys; dict.get(key, default) is Get.  The   *)
(* healthcheck tables are carried as they are (nothing is computed from    *)
(* their texts), names, images and volume mappings are Python strs.        *)
(***************************************************************************)
\* The number of entries of a service specification, and of the
\* compose_generate calls made with one specification.
MaxServices == 3
MaxCalls == 2

\* d.get(key, default)
Get(d, key, default) == IF key \in DOMAIN d THEN d[key] ELSE default

\* The elements of a list
Elems(xs) == {xs[i] : i \in 1..Len(xs)}

Healthcheck(test, interval, timeout, retries, start_period) ==
  [test |-> test, interval |-> interval, timeout |-> timeout, retries |-> retries, start_period |-> start_period]

VolumeDefault(name, mount) == [name |-> name, mount |-> mount]

\* SERVICE_DEFAULTS, in the order of its keys
SERVICE_DEFAULTS ==
  << [type |-> <<"n","g","i","n","x">>,
      healthcheck |-> Healthcheck(<<"CMD", "curl", "-f", "http://localhost/">>, "15s", "5s", 3, "10s"),
      volumes |-> <<VolumeDefault(<<"n","g","i","n","x","_","c","o","n","f","i","g">>, <<"/","e","t","c","/","n","g","i","n","x","/","c","o","n","f",".","d">>), VolumeDefault(<<"n","g","i","n","x","_","h","t","m","l">>, <<"/","u","s","r","/","s","h","a","r","e","/","n","g","i","n","x","/","h","t","m","l">>)>>],
     [type |-> <<"r","e","d","i","s">>,
      healthcheck |-> Healthcheck(<<"CMD", "redis-cli", "ping">>, "15s", "5s", 3, "10s"),
      volumes |-> <<VolumeDefault(<<"r","e","d","i","s","_","d","a","t","a">>, <<"/","d","a","t","a">>)>>],
     [type |-> <<"p","o","s","t","g","r","e","s">>,
      healthcheck |-> Healthcheck(<<"CMD-SHELL", "pg_isready -U ${POSTGRES_USER:-postgres}">>, "15s", "5s", 5, "30s"),
      volumes |-> <<VolumeDefault(<<"p","o","s","t","g","r","e","s","_","d","a","t","a">>, <<"/","v","a","r","/","l","i","b","/","p","o","s","t","g","r","e","s","q","l","/","d","a","t","a">>)>>],
     [type |-> <<"m","y","s","q","l">>,
      healthcheck |-> Healthcheck(<<"CMD", "mysqladmin", "ping", "-h", "localhost">>, "15s", "5s", 5, "30s"),
      volumes |-> <<VolumeDefault(<<"m","y","s","q","l","_","d","a","t","a">>, <<"/","v","a","r","/","l","i","b","/","m","y","s","q","l">>)>>],
     [type |-> <<"m","a","r","i","a","d","b">>,
      healthcheck |-> Healthcheck(<<"CMD", "healthcheck.sh", "--connect", "--innodb_initialized">>, "15s", "5s", 5, "30s"),
      volumes |-> <<VolumeDefault(<<"m","a","r","i","a","d","b","_","d","a","t","a">>, <<"/","v","a","r","/","l","i","b","/","m","y","s","q","l">>)>>],
     [type |-> <<"m","o","n","g","o">>,
      healthcheck |-> Healthcheck(<<"CMD", "mongosh", "--eval", "db.adminCommand('ping')">>, "15s", "5s", 5, "30s"),
      volumes |-> <<VolumeDefault(<<"m","o","n","g","o","_","d","a","t","a">>, <<"/","d","a","t","a","/","d","b">>)>>],
     [type |-> <<"e","l","a","s","t","i","c","s","e","a","r","c","h">>,
      healthcheck |-> Healthcheck(<<"CMD-SHELL", "curl -f http://localhost:9200/_cluster/health || exit 1">>, "30s", "10s", 5, "60s"),
      volumes |-> <<VolumeDefault(<<"e","s","_","d","a","t","a">>, <<"/","u","s","r","/","s","h","a","r","e","/","e","l","a","s","t","i","c","s","e","a","r","c","h","/","d","a","t","a">>)>>],
     [type |-> <<"r","a","b","b","i","t","m","q">>,
      healthcheck |-> Healthcheck(<<"CMD", "rabbitmq-diagnostics", "-q", "ping">>, "30s", "10s", 3, "30s"),
      volumes |-> <<VolumeDefault(<<"r","a","b","b","i","t","m","q","_","d","a","t","a">>, <<"/","v","a","r","/","l","i","b","/","r","a","b","b","i","t","m","q">>)>>] >>

DEFAULT_HEALTHCHECK == Healthcheck(<<"CMD-SHELL", "exit 0">>, "30s", "10s", 3, "10s")

\* None, for a service type
NoType == <<>>

\* image.lower().split(":")[0].split("/")[-1]
image_lower(image) == SplitLast(SplitFirst(lower(image), COLON), SLASH)

\* _detect_service_type(image): the first key of SERVICE_DEFAULTS that occurs
\* in the image name, or None
detect_service_type(image) ==
  LET name == image_lower(image)
      hits == {i \in 1..Len(SERVICE_DEFAULTS) : In(SERVICE_DEFAULTS[i].type, name)}
  IN  IF hits = {} THEN NoType ELSE SERVICE_DEFAULTS[MinOf(hits)].type

\* SERVICE_DEFAULTS.get(svc_type, {}) if svc_type else {}
defaults_of(svc_type) ==
  IF svc_type = NoType THEN <<>>
  ELSE CHOOSE d \in Elems(SERVICE_DEFAULTS) : d.type = svc_type

database == <<"d","a","t","a","b","a","s","e">>
cache == <<"c","a","c","h","e">>
queue == <<"q","u","e","u","e">>
backend == <<"b","a","c","k","e","n","d">>
proxy == <<"p","r","o","x","y">>
unknown == <<"u","n","k","n","o","w","n">>

SERVICE_ROLES ==
  (<<"p","o","s","t","g","r","e","s">> :> database) @@ (<<"m","y","s","q","l">> :> database) @@ (<<"m","a","r","i","a","d","b">> :> database)
  @@ (<<"m","o","n","g","o">> :> database) @@ (<<"e","l","a","s","t","i","c","s","e","a","r","c","h">> :> database) @@ (<<"r","e","d","i","s">> :> cache)
  @@ (<<"r","a","b","b","i","t","m","q">> :> queue) @@ (<<"n","g","i","n","x">> :> proxy)

BACKEND_PATTERNS ==
  << <<"p","y","t","h","o","n">>, <<"n","o","d","e">>, <<"g","o","l","a","n","g">>, <<"j","a","v","a">>, <<"r","u","b","y">>, <<"p","h","p">>,
     <<"f","l","a","s","k">>, <<"d","j","a","n","g","o">>, <<"e","x","p","r","e","s","s">>, <<"f","a","s","t","a","p","i">>, <<"s","p","r","i","n","g">>,
     <<"a","p","i">>, <<"b","a","c","k","e","n","d">>, <<"a","p","p">>, <<"s","e","r","v","e","r">>, <<"w","e","b">> >>

STAGE_ORDER ==
  (database :> 1) @@ (cache :> 1) @@ (queue :> 1) @@ (backend :> 2) @@ (proxy :> 3) @@ (unknown :> 2)

\* _detect_service_role(image, svc_type)
detect_service_role(image, svc_type) ==
  LET name == image_lower(image)
  IN  IF svc_type # NoType /\ svc_type \in DOMAIN SERVICE_ROLES THEN SERVICE_ROLES[svc_type]
      ELSE IF \E i \in 1..Len(BACKEND_PATTERNS) : In(BACKEND_PATTERNS[i], name) THEN backend
      ELSE unknown

\* [svc["name"] for svc in services_info if STAGE_ORDER.get(svc["role"], 2) == stage]
RECURSIVE by_stage(_, _)
by_stage(services_info, stage) ==
  IF Len(services_info) = 0 THEN <<>>
  ELSE (IF Get(STAGE_ORDER, Head(services_info).role, 2) = stage THEN <<Head(services_info).name>> ELSE <<>>)
       \o by_stage(Tail(services_info), stage)

\* _auto_detect_dependencies, lines 412-416: what a stage-3 name is given
stage3_deps(stage1, stage2) == IF Len(stage2) > 0 THEN stage2 ELSE stage1

\* _auto_detect_dependencies(services_info): the dict deps.  The loop over
\* stage 3 runs after the loop over stage 2 and overwrites its entries.
auto_detect_dependencies(services_info) ==
  LET stage1 == by_stage(services_info, 1)
      stage2 == by_stage(services_info, 2)
      stage3 == by_stage(services_info, 3)
      keys2 == IF Len(stage1) > 0 THEN Elems(stage2) ELSE {}
      keys3 == IF Len(stage3_deps(stage1, stage2)) > 0 THEN Elems(stage3) ELSE {}
  IN  [name \in keys2 \cup keys3 |-> IF name \in keys3 THEN stage3_deps(stage1, stage2) ELSE stage1]

\* compose_generate, lines 472-477: the entry of services_info for svc
service_info(svc) ==
  LET image == Get(svc, "image", <<"a","l","p","i","n","e",":","l","a","t","e","s","t">>)
      svc_type == detect_service_type(image)
  IN  [name |-> Get(svc, "name", <<"s","e","r","v","i","c","e">>), image |-> image, svc_type |-> svc_type,
       role |-> detect_service_role(image, svc_type)]

\* compose_generate, lines 471-477: services_info
RECURSIVE services_info_of(_)
services_info_of(svc_list) ==
  IF Len(svc_list) = 0 THEN <<>>
  ELSE <<service_info(Head(svc_list))>> \o services_info_of(Tail(svc_list))

\* datetime.now(ist).strftime("%Y-%m-%dT%H:%M:%S") at clock tick now
GenerateTimestamp(now) == <<"2","0","2","6","-","0","1","-","0","1","T">> \o ClockTime(now, <<":">>)

\* compose_generate, lines 550-557: the mount paths of the user's volumes
user_mount_paths(volumes) ==
  {Split(volumes[i], COLON)[2] : i \in {j \in 1..Len(volumes) : In(COLON, volumes[j])}}

\* compose_generate, lines 550-556: the named volumes the user's mappings declare
user_named_volumes(volumes) ==
  {SplitFirst(volumes[i], COLON) :
     i \in {j \in 1..Len(volumes) : /\ In(COLON, volumes[j])
                                    /\ ~StartsWith(SplitFirst(volumes[j], COLON), SLASH)
                                    /\ ~StartsWith(SplitFirst(volumes[j], COLON), DOT)}}

\* compose_generate, line 564
default_volume_name(name, vol_def) ==
  IF ~StartsWith(vol_def.name, name) THEN name \o <<"_">> \o vol_def.name ELSE vol_def.name

\* compose_generate, lines 561-567: the default volumes added for a service,
\* as (vol_name, mount) pairs in order
RECURSIVE default_volumes(_, _, _)
default_volumes(name, vol_defs, user_paths) ==
  IF Len(vol_defs) = 0 THEN <<>>
  ELSE (IF Head(vol_defs).mount \notin user_paths
          THEN <<[vol_name |-> default_volume_name(name, Head(vol_defs)), mount |-> Head(vol_defs).mount]>>
          ELSE <<>>)
       \o default_volumes(name, Tail(vol_defs), user_paths)

\* The default volumes of the entry svc
added_volumes(svc, info) ==
  IF info.svc_type # NoType
    THEN default_volumes(info.name, defaults_of(info.svc_type).volumes, user_mount_paths(Get(svc, "volumes", <<>>)))
    ELSE <<>>

\* compose_generate, lines 539-546: the names service_def["depends_on"] is
\* built from (none: the key is not set)
depends_on_of(svc, name, auto_deps) ==
  IF Len(Get(svc, "depends_on", <<>>)) > 0 THEN svc["depends_on"]
  ELSE IF name \in DOMAIN auto_deps THEN auto_deps[name]
  ELSE <<>>

\* compose_generate, lines 487-571: service_def for the entry svc
service_def(svc, info, auto_deps, timestamp) ==
  LET stage == Get(STAGE_ORDER, info.role, 2)
      ports == Get(svc, "ports", <<>>)
      environment == Get(svc, "environment", <<>>)
      volumes == Get(svc, "volumes", <<>>)
      command == Get(svc, "command", <<>>)
      depends_on == depends_on_of(svc, info.name, auto_deps)
      added == added_volumes(svc, info)
      all_volumes == volumes \o [i \in 1..Len(added) |-> added[i].vol_name \o COLON \o added[i].mount]
  IN  [image |-> info.image,
       restart |-> "unless-stopped",
       healthcheck |-> Get(defaults_of(info.svc_type), "healthcheck", DEFAULT_HEALTHCHECK),
       deploy |-> [resources |-> [limits |-> [memory |-> Get(svc, "memory_limit", "512M"),
                                              cpus |-> Get(svc, "cpu_limit", "0.5")]]],
       networks |-> <<"app_network">>,
       logging |-> [driver |-> "json-file", options |-> ("max-size" :> "10m") @@ ("max-file" :> "3")],
       labels |-> ("managed-by" :> <<"d","o","c","k","e","r","-","d","e","v","o","p","s","-","a","g","e","n","t">>) @@ ("created-at" :> timestamp)
                  @@ ("environment" :> <<"d","e","v","e","l","o","p","m","e","n","t">>) @@ ("stage" :> Str(stage) \o DASH \o info.role)]
      @@ (IF Len(ports) > 0 THEN "ports" :> ports ELSE <<>>)
      @@ (IF DOMAIN environment # {} THEN "environment" :> environment ELSE <<>>)
      @@ (IF Len(command) > 0 THEN "command" :> command ELSE <<>>)
      @@ (IF Len(depends_on) > 0
            THEN "depends_on" :> [dep \in Elems(depends_on) |-> [condition |-> "service_healthy"]]
            ELSE <<>>)
      @@ (IF Len(all_volumes) > 0 THEN "volumes" :> all_volumes ELSE <<>>)

\* compose_generate, lines 468-577: the dict compose that is dumped.  An
\* entry whose name was used before replaces the earlier service_def; the
\* named volumes of every entry stay.
compose_document(svc_list, timestamp) ==
  LET services_info == services_info_of(svc_list)
      auto_deps == auto_detect_dependencies(services_info)
      last(name) == MaxOf({i \in 1..Len(svc_list) : services_info[i].name = name})
      named == UNION {user_named_volumes(Get(svc_list[i], "volumes", <<>>))
                        \cup {v.vol_name : v \in Elems(added_volumes(svc_list[i], services_info[i]))} :
                      i \in 1..Len(svc_list)}
  IN  [services |-> [name \in {services_info[i].name : i \in 1..Len(svc_list)} |->
                       service_def(svc_list[last(name)], services_info[last(name)], auto_deps, timestamp)],
       networks |-> [app_network |-> [driver |-> "bridge"]]]
      @@ (IF named # {} THEN "volumes" :> [v \in named |-> [driver |-> "local"]] ELSE <<>>)

\* compose_generate(services, output_filename) at clock tick now: the text
\* returned up to the YAML, whether the file was written, the document
\* dumped into it and the dict auto_deps it logs.  An entry that is no object makes svc.get raise
\* AttributeError, which leaves the tool.
compose_generate(services, output_filename, now) ==
  IF services.json = "invalid"
    THEN [status |-> "returned", written |-> FALSE, output_path |-> NONE, document |-> NONE,
          auto_deps |-> NONE,
          text |-> <<"E","R","R","O","R",":"," ","I","n","v","a","l","i","d"," ","J","S","O","N"," ","i","n"," ","s","e","r","v","i","c","e","s"," ","s","p","e","c","i","f","i","c","a","t","i","o","n",":"," ">> \o services.error]
  ELSE IF services.json = "not_objects"
    THEN [status |-> "raised", written |-> FALSE, output_path |-> NONE, document |-> NONE,
          auto_deps |-> NONE,
          text |-> <<"A","t","t","r","i","b","u","t","e","E","r","r","o","r">>]
  ELSE [status |-> "returned", written |-> TRUE,
        output_path |-> PathJoin(COMPOSE_DIR, output_filename),
        document |-> compose_document(services.svc_list, GenerateTimestamp(now)),
        auto_deps |-> auto_detect_dependencies(services_info_of(services.svc_list)),
        text |-> <<"U+2713">> \o <<" ","C","o","m","p","o","s","e"," ","f","i","l","e"," ","g","e","n","e","r","a","t","e","d"," ","a","t",":"," ">> \o PathJoin(COMPOSE_DIR, output_filename)
                 \o <<"\n","\n","C","o","n","t","e","n","t","s",":","\n","U+0060","U+0060","U+0060","y","a","m","l","\n">>]

\* Entries of a service specification.
SvcDb == [name |-> <<"d","b">>, image |-> <<"r","e","d","i","s",":","7">>]
SvcApi == [name |-> <<"a","p","i">>, image |-> <<"n","o","d","e",":","1","8">>]
SvcWeb == [name |-> <<"w","e","b">>, image |-> <<"n","g","i","n","x",":","l","a","t","e","s","t">>, ports |-> << <<"8","0","8","0",":","8","0">> >>]
SvcApiOnWeb == [name |-> <<"a","p","i">>, image |-> <<"n","o","d","e",":","1","8">>, depends_on |-> << <<"w","e","b">> >>]
SvcApiNoDeps == [name |-> <<"a","p","i">>, image |-> <<"n","o","d","e",":","1","8">>, depends_on |-> <<>>]
SvcDbAsApp == [name |-> <<"d","b">>, image |-> <<"m","y","o","r","g","/","P","y","t","h","o","n","-","A","p","p",":","1">>]
SvcNoName == [image |-> <<"p","o","s","t","g","r","e","s",":","1","5">>, volumes |-> << <<"p","g","d","a","t","a",":","/","v","a","r","/","l","i","b","/","p","o","s","t","g","r","e","s","q","l","/","d","a","t","a">> >>]
SvcEmptyName == [name |-> <<>>, image |-> <<"r","e","d","i","s">>]
ServiceSamples ==
  {SvcDb, SvcApi, SvcWeb, SvcApiOnWeb, SvcApiNoDeps, SvcDbAsApp, SvcNoName, SvcEmptyName}

RECURSIVE ListsUpTo(_, _)
ListsUpTo(S, n) ==
  IF n = 0 THEN {<<>>}
  ELSE ListsUpTo(S, n - 1) \cup {Append(l, x) : l \in {m \in ListsUpTo(S, n - 1) : Len(m) = n - 1}, x \in S}

JsonError == <<"E","x","p","e","c","t","i","n","g"," ","v","a","l","u","e",":"," ","l","i","n","e"," ","1"," ","c","o","l","u","m","n"," ","1"," ","(","c","h","a","r"," ","0",")">>

GenerateInputs ==
  {[json |-> "objects", svc_list |-> l, error |-> NONE] : l \in ListsUpTo(ServiceSamples, MaxServices)}
  \cup {[json |-> "invalid", svc_list |-> <<>>, error |-> JsonError],
        [json |-> "not_objects", svc_list |-> <<>>, error |-> NONE]}

OutputFilenames == { <<"d","o","c","k","e","r","-","c","o","m","p","o","s","e",".","y","m","l">>, <<"w","e","b",".","y","m","l">> }

\* The variant of the write that opens the file for appending (mode "a")
written_content_m(previous, document) == Append(previous, document)

\* compose_generate, lines 582-583: the file is opened with mode "w", which
\* truncates it, so the dump of this call is all the file holds afterwards,
\* whatever it held before (previous: the plans dumped into it so far)
written_content(previous, document) == <<document>>

\* The plans the file at path holds after the calls recorded in calls (a
\* file no call has written holds none)
RECURSIVE content_of(_, _)
content_of(calls, path) ==
  IF Len(calls) = 0 THEN <<>>
  ELSE LET last == calls[Len(calls)]
       IN  IF last.written /\ last.output_path = path THEN last.content
           ELSE content_of(SubSeq(calls, 1, Len(calls) - 1), path)

\* A call of compose_generate with the specification that was submitted.
\* The record of the call holds what the tool returned and, as content,
\* what its output file holds when it returns.
Generate ==
  /\ kind = "Generate"
  /\ Len(cg.calls) < MaxCalls
  /\ \E output_filename \in OutputFilenames :
       LET r == compose_generate(cg.services, output_filename, clock)
           content == IF r.written
                        THEN written_content(content_of(cg.calls, r.output_path), r.document)
                        ELSE <<>>
       IN  /\ cg' = [cg EXCEPT !.calls = Append(@, [content |-> content] @@ r)]
           /\ fs' = IF r.written THEN (r.output_path :> mtime_at(clock)) @@ fs ELSE fs
  /\ clock' = clock + 1
  /\ UNCHANGED <<workflows, dirs, kind, file_path, dw, rw, hm, vr, act, notifications, executed, hist>>

InitGenerate ==
  /\ file_path = FileInComposeDir
  /\ fs = FileSystem(file_path, FALSE, SeedEmpty)
  /\ dirs = Directories
  /\ clock = 0
  /\ kind = "Generate"
  /\ dw = DwIdle
  /\ rw = RwIdle
  /\ hm = HmIdle
  /\ vr = VrIdle
  /\ cg \in {[services |-> s, calls |-> <<>>] : s \in GenerateInputs}
  /\ act = ActIdle
  /\ notifications = <<>>
  /\ executed = <<>>
  /\ hist = HistInit
  /\ workflows = {}

NextGenerate == Generate

SpecGenerate == InitGenerate /\ [][NextGenerate]_vars


(***************************************************************************)
(* Vocabulary of the properties.                                           *)
(***************************************************************************)
Ran(run, step) == \E i \in 1..Len(executed) : executed[i] = Step(run, step)
RollbackSpawned == Ran("Deploy", "RollbackWorkflow")
RollbackStepRan == \E i \in 1..Len(executed) : executed[i].run = "Rollback"
SentBy(run) == SelectSeq(notifications, LAMBDA n : n.run = run)
AnyStatus(statuses, s) == \E i \in 1..Len(statuses) : statuses[i] = s
HasErrorOrFailedMarker(text) == In(<<"E","R","R","O","R">>, text) \/ In(<<"F","A","I","L","E","D">>, text)
DeployAborted == dw.pc = "done" /\ StartsWith(dw.result, <<"D","E","P","L","O","Y"," ","A","B","O","R","T","E","D">>)
DeploySucceeded == dw.pc = "done" /\ StartsWith(dw.result, <<"D","E","P","L","O","Y","M","E","N","T"," ","S","U","C","C","E","S","S","F","U","L">>)

\* The host port a short-syntax port mapping declares, [IP:]HOST:CONTAINER,
\* as a set: empty when the mapping publishes no fixed host port.
DeclaredHostPort(mapping) ==
  LET parts == Split(mapping, COLON)
  IN IF Len(parts) = 2 /\ IsInt(parts[1]) THEN {ToInt(parts[1])}
     ELSE IF Len(parts) = 3 /\ IsInt(parts[2]) THEN {ToInt(parts[2])}
     ELSE {}

DeclaredHostPorts(doc) ==
  UNION {DeclaredHostPort(doc.services[i].ports[j]) :
           <<i, j>> \in {<<a, b>> \in (1..Len(doc.services)) \X (1..2) : b <= Len(doc.services[a].ports)}}

\* A host port the compose file declares was occupied when the ports were checked.
DeclaredPortOccupied ==
  /\ hist.ports_checked /\ hist.ports_file_exists /\ hist.doc.parse_ok
  /\ DeclaredHostPorts(hist.doc) \cap hist.occupied # {}

(***************************************************************************)
(* C1. In every Deploy run that reaches the Verifying step, if the report  *)
(* has at least one FAIL check, the run spawns the Rollback run and never  *)
(* ends with the DEPLOYMENT SUCCESSFUL result.                             *)
(* The code does not: line 120 also requires that the report does not      *)
(* contain "PASS", and every report contains it (line 302).                *)
(***************************************************************************)
C1_FailedVerificationRollsBack ==
  (dw.pc = "done" /\ AnyStatus(hist.dw_checks, FAIL)) => (RollbackSpawned /\ ~DeploySucceeded)

(***************************************************************************)
(* C2. For every failure result of the deploy step (file not found,        *)
(* pre-deploy validation failed, compose-up exited non-zero) the Deploy    *)
(* run spawns the Rollback run, sends the combined deploy+rollback         *)
(* notification and ends, and never proceeds to the Verifying step.        *)
(* The code does not for the pre-deploy validation failure, whose text     *)
(* carries neither "FAILED" nor "ERROR".                                   *)
(***************************************************************************)
C2_DeployFailureRollsBack ==
  hist.deploy_cmd \in {"not_found", "invalid", "up_failed"} =>
    /\ ~Ran("Deploy", "run_tests")
    /\ dw.pc \in {"rollback_after_deploy", "notify", "done"}
    /\ dw.pc = "done" =>
         /\ RollbackSpawned
         /\ Len(SentBy("Deploy")) = 1
         /\ StartsWith(SentBy("Deploy")[1].message, <<"D","E","P","L","O","Y"," ","F","A","I","L","E","D"," ","U+2014"," ","A","u","t","o","-","r","o","l","l","b","a","c","k"," ","t","r","i","g","g","e","r","e","d",":">>)

(***************************************************************************)
(* C3. When the validate step's result carries an ERROR or FAILED marker,  *)
(* the Deploy run ends Aborted after sending one notification, and none of *)
(* backup, detect-conflicts, deploy, run-verification or rollback is ever  *)
(* executed in that run.                                                   *)
(***************************************************************************)
C3_ValidationFailureAborts ==
  (dw.pc \notin {"idle", "validate"} /\ HasErrorOrFailedMarker(dw.validation)) =>
    /\ dw.pc \in {"notify", "done"}
    /\ \A i \in 1..Len(executed) :
         executed[i] \in {Step("Deploy", "validate_compose"), Step("Deploy", "send_notification")}
    /\ rw.pc = "idle"
    /\ Len(notifications) = (IF dw.pc = "done" THEN 1 ELSE 0)
    /\ dw.pc = "done" =>
         /\ DeployAborted
         /\ notifications[1] = Notification("Deploy", Slice(dw.result, 500))

C3_Witness ==
  /\ dw.pc = "done" /\ hist.validate_cmd = "failed" /\ HasErrorOrFailedMarker(dw.validation)
  /\ Len(notifications) = 1 /\ DeployAborted

(***************************************************************************)
(* C4. When at least one host port declared in the compose file is already *)
(* occupied, the Deploy run ends Aborted before the Deploying state: the   *)
(* deploy step, the teardown step and the Rollback run are never executed. *)
(* The code does not for a mapping with a bind address                     *)
(* ("127.0.0.1:8080:80"): line 104 takes the text before the first colon   *)
(* as the host port and skips the mapping.                                 *)
(***************************************************************************)
C4_OccupiedPortAborts ==
  DeclaredPortOccupied =>
    /\ ~Ran("Deploy", "deploy_compose")
    /\ ~RollbackSpawned
    /\ ~RollbackStepRan
    /\ dw.pc = "done" => DeployAborted

(***************************************************************************)
(* C5. A Deploy run in which the validate and deploy commands succeed, no  *)
(* declared port is occupied and verification has no FAIL check always     *)
(* ends Succeeded with the DEPLOYMENT SUCCESSFUL notification; it is never *)
(* Aborted and never spawns a Rollback run, whatever free-form text the    *)
(* steps' successful outputs contain.                                      *)
(* The code aborts or rolls back when the output of a command that         *)
(* succeeded contains "ERROR" or "FAILED", or a service name contains      *)
(* "occupied".                                                             *)
(***************************************************************************)
C5_CleanRunSucceeds ==
  (/\ dw.pc = "done"
   /\ hist.validate_cmd = "ok"
   /\ hist.deploy_cmd \in {"none", "ok"}
   /\ ~(hist.ports_checked /\ DeclaredHostPorts(hist.doc) \cap hist.occupied # {})
   /\ ~AnyStatus(hist.dw_checks, FAIL))
  => (DeploySucceeded /\ ~RollbackSpawned)

(***************************************************************************)
(* C6. In a Rollback run, if verification of the redeployed backup has at  *)
(* least one FAIL check, the run's report and notification are the         *)
(* ROLLBACK CRITICAL report and never the ROLLBACK SUCCESSFUL report.      *)
(* The code does not: line 279 has the condition of line 120.              *)
(***************************************************************************)
C6_FailedBackupIsCritical ==
  (rw.pc = "done" /\ AnyStatus(hist.rb_checks, FAIL)) =>
    /\ StartsWith(rw.result, <<"R","O","L","L","B","A","C","K"," ","C","R","I","T","I","C","A","L">>)
    /\ \A i \in 1..Len(SentBy("Rollback")) : StartsWith(SentBy("Rollback")[i].message, <<"R","O","L","L","B","A","C","K"," ","C","R","I","T","I","C","A","L">>)

(***************************************************************************)
(* C7. A Rollback run started with no explicit backup while the backup     *)
(* directory holds no backup file ends with the ROLLBACK FAILED result     *)
(* after exactly one notification; the deploy step and the verification    *)
(* step are never executed and nothing is retried.                         *)
(***************************************************************************)
NoBackupAvailable ==
  /\ hist.rb_resolved
  /\ rw.input_backup_file = <<>>
  /\ ~\E q \in hist.rb_candidates : EndsWith(q, <<".","y","m","l">>)

RECURSIVE StreakPos(_, _)
StreakPos(log, n) == IF n = 0 \/ ~log[n].failing THEN 0 ELSE 1 + StreakPos(log, n - 1)

\* Iteration n of the loop has run all its steps
IterationOver(n) == n < Len(hm.log) \/ hm.pc \in {"sleep", "check", "done"}

DiagnosisNotifications ==
  SelectSeq(notifications, LAMBDA n : StartsWith(n.message, <<"A","I"," ","D","I","A","G","N","O","S","I","S"," ","a","f","t","e","r"," ","3"," ","f","a","i","l","u","r","e","s",":","\n">>))

C8_StreakArithmetic ==
  /\ \A n \in 1..Len(hm.log) :
       IterationOver(n) =>
         /\ hm.log[n].diagnosis <=> (StreakPos(hm.log, n) > 0 /\ StreakPos(hm.log, n) % 3 = 0)
         /\ hm.log[n].diagnosis_sent <=> hm.log[n].diagnosis
  /\ IterationOver(Len(hm.log)) =>
       /\ hm.failure_count = StreakPos(hm.log, Len(hm.log)) % 3
       /\ Len(DiagnosisNotifications) = Cardinality({n \in 1..Len(hm.log) : hm.log[n].diagnosis})
       /\ Cardinality({i \in 1..Len(executed) : executed[i] = Step("HealthMonitor", "agent_analyze")})
            = Cardinality({n \in 1..Len(hm.log) : hm.log[n].diagnosis})

\* C8, the whole claim: the streak arithmetic holds in every state, and a check
\* that brings the counter to 3 leads to the diagnosis being sent and the
\* counter being 0 at the timer of that iteration.
C8_DiagnosisEveryThirdFailure ==
  /\ []C8_StreakArithmetic
  /\ (hm.pc = "analyze") ~> (hm.pc = "sleep" /\ hm.failure_count = 0 /\ hm.log[Len(hm.log)].diagnosis_sent)

VerdictLine(report) == SplitLast(SubSeq(report, 1, MaxOf(Occurrences(NL, report))), <<"[","T","E","S","T","]"," ","D","e","p","l","o","y","m","e","n","t",":"," ">>)

C10_AggregateVerdict ==
  vr.pc \in {"done", "aggregated"} =>
    LET statuses == Statuses(vr.verdicts)
        verdict == VerdictLine(vr.report)
    IN /\ Len(statuses) = 8
       /\ AnyStatus(statuses, FAIL) <=> StartsWith(verdict, <<"F","A","I","L","E","D">>)
       /\ (~AnyStatus(statuses, FAIL) /\ AnyStatus(statuses, WARN)) <=> verdict = <<"A","C","C","E","P","T","E","D"," ","W","I","T","H"," ","W","A","R","N","I","N","G","S">>
       /\ (~AnyStatus(statuses, FAIL) /\ ~AnyStatus(statuses, WARN)) <=> verdict = <<"S","U","C","C","E","S","S","F","U","L">>

C10_Witness ==
  /\ vr.pc = "done"
  /\ AnyStatus(Statuses(vr.verdicts), FAIL) /\ AnyStatus(Statuses(vr.verdicts), WARN)
  /\ StartsWith(VerdictLine(vr.report), <<"F","A","I","L","E","D">>)

(***************************************************************************)
(* compose_generate on specifications whose entries carry volumes          *)
(* (SpecVolumes): one or two entries, of the same or of different types,   *)
(* with and without volumes of their own.                                  *)
(***************************************************************************)
SvcRabbit == [name |-> <<"r","a","b","b","i","t">>, image |-> <<"r","a","b","b","i","t","m","q",":","3">>]
SvcRabbitmq == [name |-> <<"r","a","b","b","i","t","m","q">>, image |-> <<"r","a","b","b","i","t","m","q",":","3","-","m","a","n","a","g","e","m","e","n","t">>]
SvcCache == [name |-> <<"c","a","c","h","e">>, image |-> <<"r","e","d","i","s",":","7">>]
SvcCacheNamed == [name |-> <<"c","a","c","h","e">>, image |-> <<"r","e","d","i","s",":","7">>, volumes |-> << <<"c","a","c","h","e","d","a","t","a",":","/","d","a","t","a">> >>]
SvcCacheAnon == [name |-> <<"s","e","s","s","i","o","n","s">>, image |-> <<"r","e","d","i","s",":","7">>, volumes |-> << <<"/","d","a","t","a">> >>]
SvcPgReadOnly == [name |-> <<"p","g">>, image |-> <<"p","o","s","t","g","r","e","s",":","1","5">>, volumes |-> << <<".","/","s","e","e","d",":","/","v","a","r","/","l","i","b","/","p","o","s","t","g","r","e","s","q","l","/","d","a","t","a",":","r","o">> >>]
SvcWebConf == [name |-> <<"w","e","b">>, image |-> <<"n","g","i","n","x",":","l","a","t","e","s","t">>, volumes |-> << <<".","/","c","o","n","f",":","/","e","t","c","/","n","g","i","n","x","/","c","o","n","f",".","d">> >>]
VolumeSamples ==
  {SvcRabbit, SvcRabbitmq, SvcCache, SvcCacheNamed, SvcCacheAnon, SvcPgReadOnly, SvcWebConf, SvcWeb, SvcApi}

VolumeInputs ==
  {[json |-> "objects", svc_list |-> <<a>>, error |-> NONE] : a \in VolumeSamples}
  \cup {[json |-> "objects", svc_list |-> <<a, b>>, error |-> NONE] : a \in VolumeSamples, b \in VolumeSamples}

\* A call of compose_generate for one of these specifications
GenerateVolumes ==
  /\ cg.services \in VolumeInputs
  /\ Generate

InitVolumes ==
  /\ file_path = FileInComposeDir
  /\ fs = FileSystem(file_path, FALSE, SeedEmpty)
  /\ dirs = Directories
  /\ clock = 0
  /\ kind = "Generate"
  /\ dw = DwIdle
  /\ rw = RwIdle
  /\ hm = HmIdle
  /\ vr = VrIdle
  /\ cg \in {[services |-> s, calls |-> <<>>] : s \in VolumeInputs}
  /\ act = ActIdle
  /\ notifications = <<>>
  /\ executed = <<>>
  /\ hist = HistInit
  /\ workflows = {}

NextVolumes == GenerateVolumes

SpecVolumes == InitVolumes /\ [][NextVolumes]_vars

(***************************************************************************)
(* temporal/client.py: start_deploy, start_health_monitor, start_rollback  *)
(* (SpecClient).  workflows is the set of calls made from the command      *)
(* line, each with the execution it led to: a call is suspended in         *)
(* get_client ("connecting"), then in client.start_workflow with the id it *)
(* built ("starting"), and then its execution is "running" or "closed", or *)
(* the engine refused the start ("refused").  The engine refuses to start  *)
(* an execution under the id of one that is still running.                 *)
(***************************************************************************)
MaxRequests == 3
MaxClientClock == 1

\* datetime.now(ist).strftime("%Y%m%d-%H%M%S") at clock tick now
ClientTimestamp(now) == <<"2","0","2","6","0","1","0","1","-">> \o ClockTime(now, <<>>)

\* uuid.uuid4().hex[:6]
Uuids == { <<"3","f","9","c","1","a">>, <<"b","0","7","e","4","2">> }

\* The seconds between checks a monitor is started with (default 60)
ClientIntervals == {60}

\* lines 58, 96, 133: the id depends on the kind of run, the second of the
\* call and, except for a monitor, six random digits; not on the argument
workflow_id(workflow, timestamp, uuid) ==
  IF workflow = "DeployWorkflow" THEN <<"d","e","p","l","o","y","-">> \o timestamp \o DASH \o uuid
  ELSE IF workflow = "RollbackWorkflow" THEN <<"r","o","l","l","b","a","c","k","-">> \o timestamp \o DASH \o uuid
  ELSE <<"h","e","a","l","t","h","-","m","o","n","i","t","o","r","-">> \o timestamp

\* The call number n of the command line, suspended in get_client (lines
\* 54, 92, 129); arg is the sequence of the arguments of the run
ClientCall(n, workflow, arg) ==
  [call |-> n, workflow |-> workflow, arg |-> arg, id |-> <<>>, status |-> "connecting"]

\* client.start_workflow(workflow, arg, id=workflow_id, ...), lines 60, 98, 135
start_workflow(executions, request) ==
  IF \E w \in executions : w.id = request.id /\ w.status = "running"
    THEN [request EXCEPT !.status = "refused"]
    ELSE [request EXCEPT !.status = "running"]

\* start_deploy(file_path) is called, lines 45-54
ClientStartDeploy ==
  /\ kind = "Client"
  /\ Cardinality(workflows) < MaxRequests
  /\ \E f \in ComposeFiles :
       workflows' = workflows \cup {ClientCall(Cardinality(workflows) + 1, "DeployWorkflow", <<f>>)}
  /\ UNCHANGED <<fs, dirs, clock, kind, file_path, dw, rw, hm, vr, cg, act, notifications, executed, hist>>

\* start_health_monitor(interval) is called, lines 83-92
ClientStartHealthMonitor ==
  /\ kind = "Client"
  /\ Cardinality(workflows) < MaxRequests
  /\ \E interval \in ClientIntervals :
       workflows' = workflows \cup {ClientCall(Cardinality(workflows) + 1, "HealthMonitorWorkflow", <<Str(interval)>>)}
  /\ UNCHANGED <<fs, dirs, clock, kind, file_path, dw, rw, hm, vr, cg, act, notifications, executed, hist>>

\* start_rollback(current_file, backup_file="") is called, lines 119-129
ClientStartRollback ==
  /\ kind = "Client"
  /\ Cardinality(workflows) < MaxRequests
  /\ \E current_file \in {FileInComposeDir} :
       workflows' = workflows \cup {ClientCall(Cardinality(workflows) + 1, "RollbackWorkflow", <<current_file, <<>>>>)}
  /\ UNCHANGED <<fs, dirs, clock, kind, file_path, dw, rw, hm, vr, cg, act, notifications, executed, hist>>

\* get_client() returns; the call builds its id from the clock (lines
\* 56-58, 94-96, 131-133) and is suspended in client.start_workflow
ClientConnected ==
  /\ kind = "Client"
  /\ \E w \in workflows, uuid \in Uuids :
       /\ w.status = "connecting"
       /\ workflows' = (workflows \ {w}) \cup
            {[w EXCEPT !.id = workflow_id(w.workflow, ClientTimestamp(clock), uuid), !.status = "starting"]}
  /\ UNCHANGED <<fs, dirs, clock, kind, file_path, dw, rw, hm, vr, cg, act, notifications, executed, hist>>

\* The engine answers client.start_workflow (lines 60-65, 98-103, 135-140)
ClientWorkflowStarted ==
  /\ kind = "Client"
  /\ \E w \in workflows :
       /\ w.status = "starting"
       /\ workflows' = (workflows \ {w}) \cup {start_workflow(workflows \ {w}, w)}
  /\ UNCHANGED <<fs, dirs, clock, kind, file_path, dw, rw, hm, vr, cg, act, notifications, executed, hist>>

\* The run has ended; handle.result() returns to start_deploy (line 79)
\* and to start_rollback (line 148)
ClientWorkflowCloses ==
  /\ kind = "Client"
  /\ \E w \in workflows :
       /\ w.status = "running"
       /\ workflows' = (workflows \ {w}) \cup {[w EXCEPT !.status = "closed"]}
  /\ UNCHANGED <<fs, dirs, clock, kind, file_path, dw, rw, hm, vr, cg, act, notifications, executed, hist>>

\* A second passes
ClientTick ==
  /\ kind = "Client"
  /\ clock < MaxClientClock
  /\ clock' = clock + 1
  /\ UNCHANGED <<workflows, fs, dirs, kind, file_path, dw, rw, hm, vr, cg, act, notifications, executed, hist>>

InitClient ==
  /\ file_path = FileInComposeDir
  /\ fs = FileSystem(file_path, TRUE, SeedEmpty)
  /\ dirs = Directories
  /\ clock = 0
  /\ kind = "Client"
  /\ dw = DwIdle
  /\ rw = RwIdle
  /\ hm = HmIdle
  /\ vr = VrIdle
  /\ cg = CgIdle
  /\ act = ActIdle
  /\ notifications = <<>>
  /\ executed = <<>>
  /\ hist = HistInit
  /\ workflows = {}

NextClient ==
  \/ ClientStartDeploy
  \/ ClientStartHealthMonitor
  \/ ClientStartRollback
  \/ ClientConnected
  \/ ClientWorkflowStarted
  \/ ClientWorkflowCloses
  \/ ClientTick

SpecClient == InitClient /\ [][NextClient]_vars

(***************************************************************************)
(* Properties of compose_generate (SpecGenerate).                          *)
(***************************************************************************)
\* The calls of compose_generate made so far that wrote a plan
WrittenCalls == {i \in 1..Len(cg.calls) : cg.calls[i].written}

\* The names service name depends on in the plan doc
PlanDeps(doc, name) ==
  IF "depends_on" \in DOMAIN doc.services[name] THEN DOMAIN doc.services[name]["depends_on"] ELSE {}

\* The stage of service name in the plan doc, read from its "stage" label
PlanStage(doc, name) == ToInt(SplitFirst(doc.services[name]["labels"]["stage"], DASH))

\* The services reachable from the set S by at most k further dependency
\* references inside the plan doc
RECURSIVE PlanReach(_, _, _)
PlanReach(doc, S, k) ==
  IF k = 0 THEN S
  ELSE PlanReach(doc, S \cup UNION {PlanDeps(doc, m) \cap DOMAIN doc.services : m \in S}, k - 1)

\* No service of the plan doc reaches itself through dependency references
PlanAcyclic(doc) ==
  \A name \in DOMAIN doc.services :
    name \notin PlanReach(doc, PlanDeps(doc, name) \cap DOMAIN doc.services, Cardinality(DOMAIN doc.services))

\* The specification submitted has the entry at position i as the one that
\* defines its name in the plan (no later entry has the same name)
DefinesItsName(infos, i) == \A j \in (i + 1)..Len(infos) : infos[j].name # infos[i].name

\* The names of the entries of stage s
NamesOfStage(infos, s) == {infos[i].name : i \in {j \in 1..Len(infos) : Get(STAGE_ORDER, infos[j].role, 2) = s}}

\* The plan doc without its created-at labels
WithoutCreatedAt(doc) ==
  [doc EXCEPT !.services =
     [name \in DOMAIN doc.services |->
        [doc.services[name] EXCEPT !["labels"] = [@ EXCEPT !["created-at"] = <<>>]]]]

\* C11: in every plan compose_generate writes, a service depends only on
\* services of a strictly lower stage (for every service of the plan and
\* every name in its depends_on that is a service of the plan).
C11_StageMonotonic ==
  \A i \in WrittenCalls :
    LET doc == cg.calls[i].document
    IN  \A name \in DOMAIN doc.services :
          \A dep \in PlanDeps(doc, name) \cap DOMAIN doc.services :
            PlanStage(doc, dep) < PlanStage(doc, name)

\* C12: in every plan compose_generate writes, every name in a depends_on is
\* a service of the same plan, and no service reaches itself through
\* dependency references.
C12_DependenciesResolveAcyclic ==
  \A i \in WrittenCalls :
    LET doc == cg.calls[i].document
    IN  /\ \A name \in DOMAIN doc.services : PlanDeps(doc, name) \subseteq DOMAIN doc.services
        /\ PlanAcyclic(doc)

\* C13: an entry that supplies a depends_on list gets exactly that list as
\* its dependency set in the plan, and every other entry gets exactly what
\* inference (auto_deps) gives its name.  Stated for the entries that
\* define their name in the plan.
C13_ExplicitDependenciesReplaceInference ==
  \A c \in WrittenCalls :
    LET doc == cg.calls[c].document
        svc_list == cg.services.svc_list
        infos == services_info_of(svc_list)
    IN  \A i \in 1..Len(svc_list) :
          DefinesItsName(infos, i) =>
            PlanDeps(doc, infos[i].name) =
              (IF "depends_on" \in DOMAIN svc_list[i]
                 THEN Elems(svc_list[i]["depends_on"])
                 ELSE Elems(Get(cg.calls[c].auto_deps, infos[i].name, <<>>)))

\* C14: inference gives a stage-1 service nothing, a stage-2 service exactly
\* the stage-1 services present, and a stage-3 service exactly the stage-2
\* services present, or the stage-1 services when there is no stage-2
\* service (for every specification compose_generate accepts, a service
\* being named by its name).
C14_InferenceByStage ==
  \A c \in WrittenCalls :
    LET infos == services_info_of(cg.services.svc_list)
        inferred(name) == Elems(Get(cg.calls[c].auto_deps, name, <<>>))
    IN  /\ \A name \in NamesOfStage(infos, 1) : inferred(name) = {}
        /\ \A name \in NamesOfStage(infos, 2) : inferred(name) = NamesOfStage(infos, 1)
        /\ \A name \in NamesOfStage(infos, 3) :
             inferred(name) = (IF NamesOfStage(infos, 2) # {} THEN NamesOfStage(infos, 2)
                               ELSE NamesOfStage(infos, 1))

MalformedSpecification ==
  \/ cg.services.json = "invalid"
  \/ /\ cg.services.json = "objects"
     /\ \E i \in 1..Len(cg.services.svc_list) : Len(Get(cg.services.svc_list[i], "name", <<>>)) = 0

\* C16: for a malformed specification compose_generate returns an error
\* text and writes no plan file.
C16_MalformedInputFailsClosed ==
  MalformedSpecification =>
    \A i \in 1..Len(cg.calls) :
      /\ ~cg.calls[i].written
      /\ StartsWith(cg.calls[i].text, <<"E","R","R","O","R">>)
      /\ \A p \in DOMAIN fs : Parent(p) # COMPOSE_DIR

(***************************************************************************)
(* Properties of failing steps (SpecSteps, SpecStepsLive).                 *)
(***************************************************************************)
\* The Deploy run or the Rollback run has ended: it returned, or an
\* exhausted step made it fail
DeployEnded == dw.pc \in {"done", "failed"}
RollbackEnded == rw.pc = "done"

\* C17: a run that has ended, by returning or by a step that exhausted its
\* attempts, has sent exactly one notification.
C17_OneNotificationPerEndedRun ==
  /\ DeployEnded => Len(SentBy("Deploy")) = 1
  /\ RollbackEnded => Len(SentBy("Rollback")) = 1

\* C18: a failed attempt at send_notification is not followed by another
\* attempt, and the run does not fail because of it.
C18_NotificationFailureNotRetried ==
  /\ ~(act.site.step = "send_notification" /\ act.state = "retrying")
  /\ dw.error # "send_notification"

\* C19: a Deploy run that is at its backup step gets to its port check.
C19_BackupNeverBlocks ==
  (dw.pc = "backup") ~> (dw.pc = "detect_conflicts")

\* C20: a Deploy run whose validate step exhausted its attempts has ended
\* with the DEPLOY ABORTED notification, and a Deploy run whose deploy step
\* exhausted its attempts has spawned the Rollback run.
C20_ExhaustedStepTreatedAsFailure ==
  /\ dw.error = "validate_compose" =>
       /\ Len(SentBy("Deploy")) = 1
       /\ StartsWith(SentBy("Deploy")[1].message, <<"D","E","P","L","O","Y"," ","A","B","O","R","T","E","D">>)
  /\ dw.error = "deploy_compose" => RollbackSpawned

(***************************************************************************)
(* Attempt caps                                                            *)
(***************************************************************************)
\* The attempts started so far at the call a run is waiting for, once one
\* of them failed
AttemptsStarted == IF act.state = "retrying" THEN act.failures + 1 ELSE act.failures

\* C21: the validate step and the backup step of a Deploy run are attempted
\* at most twice each.
C21_ValidateBackupAtMostTwice ==
  (act.site.run = "Deploy" /\ act.site.step \in {"validate_compose", "backup_compose"})
    => AttemptsStarted <= 2

\* C22: a destructive step (deploy, teardown) of a Deploy or Rollback run
\* has a declared attempt cap and is never attempted more often than the
\* cap allows.
C22_DestructiveStepsCapped ==
  act.site.step \in {"deploy_compose", "teardown_compose"}
    => /\ maximum_attempts(act.site) # 0
       /\ AttemptsStarted <= maximum_attempts(act.site)

(***************************************************************************)
(* Restarts                                                                *)
(***************************************************************************)
\* C23: a Rollback run that was rebuilt after a restart has the backup
\* target its first execution resolved, is on the branch its first
\* execution took, and has executed no step twice.
C23_RollbackReplaySafe ==
  hist.restarts > 0 =>
    /\ rw.backup_file = hist.rb_backup_file
    /\ rw.pc # "nondeterminism"
    /\ \A i, j \in 1..Len(executed) : executed[i] = executed[j] => i = j

C25_CancelledRunStops ==
  hist.cancelled =>
    /\ hm.pc = "cancelled"
    /\ Len(executed) = hist.steps_at_cancel

\* A run was cancelled in the timer that follows a failing check.
C25_Witness ==
  /\ hist.cancelled
  /\ hm.failure_count = 1
  /\ hist.steps_at_cancel >= 2

(***************************************************************************)
(* The horizon of the Health Monitor Loop                                  *)
(***************************************************************************)
\* The health checks a run has performed
HealthChecksDone == Len(SelectSeq(executed, LAMBDA s : s = Step("HealthMonitor", "health_check")))

\* C26: a Health Monitor run performs at most max_checks (1440) health
\* checks, and a run that has returned performed exactly that many.
C26_LoopBounded ==
  /\ HealthChecksDone <= max_checks
  /\ hm.check_count = HealthChecksDone
  /\ hm.pc = "done" => HealthChecksDone = max_checks

\* A run has returned after two streaks of failing checks that were
\* alerted.
C26_Witness ==
  /\ hm.pc = "done"
  /\ Len(notifications) = 2

(***************************************************************************)
(* The verification report (SpecVerify)                                    *)
(***************************************************************************)
\* The pieces of t between the line ends at the offsets cuts, from position from
RECURSIVE Pieces(_, _, _)
Pieces(t, from, cuts) ==
  IF cuts = {} THEN <<SubSeq(t, from, Len(t))>>
  ELSE <<SubSeq(t, from, MinOf(cuts))>> \o Pieces(t, MinOf(cuts) + 2, cuts \ {MinOf(cuts)})

\* The lines of a report
ReportLines(report) == Pieces(report, 1, Occurrences(NL, report))

\* The tag of a report line: the text between "] [" and the next "]"
LineTag(line) == SplitFirst(SubSeq(line, Len(SplitFirst(line, <<"]"," ","[">>)) + 4, Len(line)), <<"]">>)

\* The label of a report line: the text between its tag and the next ":"
LineLabel(line) ==
  SplitFirst(SubSeq(line, Len(SplitFirst(line, <<"]"," ","[">>)) + Len(LineTag(line)) + 6, Len(line)), COLON)

\* The lines of a report that carry a check verdict
VerdictLines(report) == SelectSeq(ReportLines(report), LAMBDA l : LineTag(l) \in {PASS, WARN, FAIL})

\* The checks in the order the report has to list them
CheckOrder ==
  <<<<"R","u","n","n","i","n","g">>, <<"H","e","a","l","t","h">>, <<"P","o","r","t"," ","B","i","n","d","i","n","g">>, <<"C","o","n","n","e","c","t","i","v","i","t","y">>,
    <<"V","o","l","u","m","e"," ","M","o","u","n","t">>, <<"E","n","v","i","r","o","n","m","e","n","t"," ","V","a","r","i","a","b","l","e">>, <<"L","o","g"," ","O","u","t","p","u","t">>, <<"R","e","s","o","u","r","c","e"," ","B","a","s","e","l","i","n","e">>>>

\* The number of lines of a status among the verdict lines
TaggedLines(lines, status) == Len(SelectSeq(lines, LAMBDA l : LineTag(l) = status))

\* The counts a report states in its Result line: <<PASS, WARN, FAIL>>
ReportedCounts(report) ==
  LET line == SelectSeq(ReportLines(report), LAMBDA l : In(<<"[","T","E","S","T","]"," ","R","e","s","u","l","t",":"," ">>, l))[1]
      parts == Split(SplitLast(line, <<"R","e","s","u","l","t",":"," ">>), <<" ","/"," ">>)
  IN <<ToInt(SplitFirst(parts[1], SPACE)), ToInt(SplitFirst(parts[2], SPACE)), ToInt(SplitFirst(parts[3], SPACE))>>

\* C27: a verification report has exactly 8 verdict lines, for the checks
\* in their fixed order, and the PASS, WARN and FAIL counts it states are
\* the numbers of its verdict lines of each status and sum to 8.
C27_ReportShape ==
  vr.pc = "done" =>
    LET lines == VerdictLines(vr.report)
        counts == ReportedCounts(vr.report)
    IN /\ Len(lines) = 8
       /\ \A i \in 1..8 : In(CheckOrder[i], LineLabel(lines[i]))
       /\ counts[1] = TaggedLines(lines, PASS)
       /\ counts[2] = TaggedLines(lines, WARN)
       /\ counts[3] = TaggedLines(lines, FAIL)
       /\ counts[1] + counts[2] + counts[3] = 8

\* A report with verdicts of all three statuses.
C27_Witness ==
  /\ vr.pc = "done"
  /\ LET lines == VerdictLines(vr.report)
     IN \A s \in {PASS, WARN, FAIL} : TaggedLines(lines, s) > 0

\* The verdict a report gives for its n-th check
ReportedStatus(report, n) == LineTag(VerdictLines(report)[n])

\* The expected instances that are not among the running ones
NotRunning(obs) == {i \in 1..Len(expected_of(obs)) : \A k \in 1..Len(obs.running) : obs.running[k].name # expected_of(obs)[i]}

\* C28: the Running check is FAIL when an expected service instance is
\* absent or not running, and PASS only when every expected instance runs.
C28_RunningCheck ==
  vr.pc = "done" =>
    /\ NotRunning(vr.obs) # {} => ReportedStatus(vr.report, 1) = FAIL
    /\ ReportedStatus(vr.report, 1) = PASS => NotRunning(vr.obs) = {}

\* What the polling of a running instance ends with: the first status
\* among healthy, unhealthy and no healthcheck that one of its 12 polls
\* reports, or "exhausted"
PollOutcome(c) ==
  IF c.health.pending < 12 /\ c.health.status \in {<<"h","e","a","l","t","h","y">>, <<"u","n","h","e","a","l","t","h","y">>, <<"n","o"," ","h","e","a","l","t","h","c","h","e","c","k">>}
    THEN c.health.status
    ELSE <<"e","x","h","a","u","s","t","e","d">>

\* The outcomes of the running instances of an observation
PollOutcomes(obs) == {PollOutcome(obs.running[k]) : k \in 1..Len(obs.running)}

\* C29: the Health check is FAIL when a running instance is unhealthy or
\* exhausts its polls, else WARN when an instance declares no healthcheck,
\* else PASS, whatever the instances are called.
C29_HealthCheck ==
  vr.pc = "done" =>
    ReportedStatus(vr.report, 2) =
      IF PollOutcomes(vr.obs) \cap {<<"u","n","h","e","a","l","t","h","y">>, <<"e","x","h","a","u","s","t","e","d">>} # {} THEN FAIL
      ELSE IF <<"n","o"," ","h","e","a","l","t","h","c","h","e","c","k">> \in PollOutcomes(vr.obs) THEN WARN
      ELSE PASS

\* The host ports `docker port` reports as published for the running
\* instances: the text after the last ":" of each of its mapping lines
PublishedPorts(obs) ==
  UNION {{SplitLast(line, COLON) :
            line \in {l \in Elems(Pieces(obs.running[k].port.stdout, 1, Occurrences(NL, obs.running[k].port.stdout))) :
                        In(ARROW, l)}} :
         k \in {j \in 1..Len(obs.running) : obs.running[j].port.success}}

\* A connection to the host port succeeds
PortReachable(obs, host_port) == IsInt(host_port) /\ ToInt(host_port) \in obs.open_ports

\* C30: the Port Binding check is FAIL when a published host port of a
\* running instance does not accept a connection, WARN when no port is
\* published, and PASS exactly when a port is published and all published
\* ports accept a connection.
C30_PortBindingCheck ==
  vr.pc = "done" =>
    LET published == PublishedPorts(vr.obs)
        status == ReportedStatus(vr.report, 3)
    IN /\ (\E q \in published : ~PortReachable(vr.obs, q)) => status = FAIL
       /\ published = {} => status = WARN
       /\ status = PASS <=> (published # {} /\ \A q \in published : PortReachable(vr.obs, q))

\* Of two published ports one accepts a connection and the other does not.
C30_Witness ==
  /\ vr.pc = "done"
  /\ Cardinality(PublishedPorts(vr.obs)) = 2
  /\ \E q \in PublishedPorts(vr.obs) : PortReachable(vr.obs, q)
  /\ \E q \in PublishedPorts(vr.obs) : ~PortReachable(vr.obs, q)
  /\ ReportedStatus(vr.report, 3) = FAIL

\* C31: the Connectivity, Volume Mount, Environment Variable, Log Output and
\* Resource Baseline checks (checks 4 to 8) are never FAIL; so a report
\* states at most 3 FAIL, and its aggregate verdict is FAILED only when the
\* Running, Health or Port Binding check is FAIL.
C31_LaterChecksNeverFail ==
  vr.pc = "done" =>
    LET lines == VerdictLines(vr.report)
    IN /\ \A n \in 4..8 : LineTag(lines[n]) \in {PASS, WARN}
       /\ ReportedCounts(vr.report)[3] <= 3
       /\ StartsWith(VerdictLine(vr.report), <<"F","A","I","L","E","D">>) => \E n \in 1..3 : LineTag(lines[n]) = FAIL

\* Every probe of checks 4 to 8 gives its worst result and the first three
\* checks fail: five WARN, three FAIL.
C31_Witness ==
  /\ vr.pc = "done"
  /\ \A n \in 4..8 : LineTag(VerdictLines(vr.report)[n]) = WARN
  /\ ReportedCounts(vr.report) = <<0, 5, 3>>
  /\ StartsWith(VerdictLine(vr.report), <<"F","A","I","L","E","D">>)

\* The entry of a specification that defines the service name in the plan:
\* the last one of that name
DefiningEntry(svc_list, name) ==
  svc_list[MaxOf({i \in 1..Len(svc_list) : service_info(svc_list[i]).name = name})]

\* The container path a volume of Compose's short syntax
\* [SOURCE:]TARGET[:MODE] is mounted at
DeclaredMountPath(v) == IF In(COLON, v) THEN Split(v, COLON)[2] ELSE v

\* The mount paths of the volumes an entry declares
DeclaredMountPaths(svc) ==
  {DeclaredMountPath(Get(svc, "volumes", <<>>)[i]) : i \in 1..Len(Get(svc, "volumes", <<>>))}

\* The volumes of service name in the plan doc that its entry did not
\* declare: the default persistence volumes attached to it
PlanDefaultVolumes(doc, svc, name) ==
  LET vols == Get(doc.services[name], "volumes", <<>>)
  IN  {vols[i] : i \in (Len(Get(svc, "volumes", <<>>)) + 1)..Len(vols)}

\* C32: in every plan the default volumes of two distinct services have
\* distinct volume names, and a default volume of a service's type is left
\* out exactly when its mount path is the mount path of a volume the
\* service declares.
C32_DefaultVolumes ==
  \A c \in WrittenCalls :
    LET doc == cg.calls[c].document
        entry(name) == DefiningEntry(cg.services.svc_list, name)
        defaults(name) == PlanDefaultVolumes(doc, entry(name), name)
    IN  /\ \A n1, n2 \in DOMAIN doc.services :
             n1 # n2 => {SplitFirst(v, COLON) : v \in defaults(n1)} \cap {SplitFirst(v, COLON) : v \in defaults(n2)} = {}
        /\ \A name \in DOMAIN doc.services :
             \A d \in Elems(Get(defaults_of(service_info(entry(name)).svc_type), "volumes", <<>>)) :
               (d.mount \notin {DeclaredMountPath(v) : v \in defaults(name)})
                 <=> (d.mount \in DeclaredMountPaths(entry(name)))

\* The steps of the Rollback run executed so far, in order
RollbackSteps ==
  LET steps == SelectSeq(executed, LAMBDA s : s.run = "Rollback")
  IN  [i \in 1..Len(steps) |-> steps[i].step]

IsPrefix(s, t) == Len(s) <= Len(t) /\ s = SubSeq(t, 1, Len(s))

\* The order of a Rollback run that found a target, and of one that did not
RollbackOrder == <<"teardown_compose", "deploy_compose", "run_tests", "send_notification">>
RollbackOrderNoTarget == <<"teardown_compose", "send_notification">>

\* The *.yml files that were in the searched directory when the target was
\* resolved and that no other of them is newer than
NewestBackups ==
  LET backups == {q \in hist.rb_candidates : EndsWith(q, <<".","y","m","l">>)}
  IN  {q \in backups : \A o \in backups : fs[o] <= fs[q]}

\* C33: a Rollback run executes teardown, backup resolution, deploy of the
\* backup, verification and report in this order; whatever the teardown
\* returned, a run that has a target goes through all of them; the target
\* it deploys is the backup named in its input when there is one, and
\* otherwise a most recently modified backup file.
C33_RollbackOrderAndTarget ==
  /\ IsPrefix(RollbackSteps, RollbackOrder) \/ IsPrefix(RollbackSteps, RollbackOrderNoTarget)
  /\ hist.rb_resolved => Ran("Rollback", "teardown_compose")
  /\ Ran("Rollback", "deploy_compose") =>
       /\ hist.rb_resolved
       /\ rw.input_backup_file # <<>> => rw.backup_file = rw.input_backup_file
       /\ rw.input_backup_file = <<>> => rw.backup_file \in NewestBackups
  /\ (rw.pc = "done" /\ hist.rb_resolved /\ hist.rb_backup_file # <<>>) => RollbackSteps = RollbackOrder

\* A run without a backup in its input whose teardown failed went through
\* every step and deployed the newer of two backups.
C33_Witness ==
  /\ kind = "Rollback" /\ rw.pc = "done"
  /\ rw.input_backup_file = <<>>
  /\ In(<<"F","A","I","L","E","D">>, rw.teardown)
  /\ RollbackSteps = RollbackOrder
  /\ rw.backup_file = OldBackup2 /\ OldBackup1 \in hist.rb_candidates

\* A run with a backup in its input deployed it although the backup
\* directory holds a newer file.
C33_WitnessExplicit ==
  /\ kind = "Rollback" /\ rw.pc = "done"
  /\ rw.input_backup_file = MissingBackup /\ rw.backup_file = MissingBackup
  /\ RollbackSteps = RollbackOrder

\* The activities of the Deploy run executed so far, in order, without the
\* child run and the notification
DeploySteps ==
  LET steps == SelectSeq(executed, LAMBDA s : s.run = "Deploy" /\ s.step \notin {"RollbackWorkflow", "send_notification"})
  IN  [i \in 1..Len(steps) |-> steps[i].step]

DeployOrder == <<"validate_compose", "backup_compose", "detect_conflicts", "deploy_compose", "run_tests">>

\* The report of the detect-conflicts step lists a conflict
ConflictReported(conflicts) == In(<<"C","O","N","F","L","I","C","T","S"," ","D","E","T","E","C","T","E","D",":">>, conflicts)

\* How often the Deploy run started a Rollback run
RollbacksSpawned == Cardinality({i \in 1..Len(executed) : executed[i] = Step("Deploy", "RollbackWorkflow")})

\* C34: a Deploy run executes validate, backup, detect-conflicts, deploy
\* and run-verification in this order and each at most once; it deploys
\* only after its validation passed and its port check reported no
\* conflict; and it starts at most one Rollback run.
C34_DeployOrder ==
  /\ IsPrefix(DeploySteps, DeployOrder)
  /\ Ran("Deploy", "deploy_compose") =>
       /\ hist.validate_cmd = "ok"
       /\ hist.ports_checked /\ ~ConflictReported(dw.conflicts)
  /\ RollbacksSpawned <= 1
  /\ Cardinality({i \in 1..Len(executed) : executed[i] = Step("Rollback", "teardown_compose")}) <= 1

\* A run that deployed with an occupied port on the host that its file
\* does not declare, failed to deploy and ran one Rollback run to its end.
C34_Witness ==
  /\ kind = "Deploy" /\ dw.pc = "done"
  /\ DeploySteps = SubSeq(DeployOrder, 1, 4)
  /\ hist.occupied # {}
  /\ RollbacksSpawned = 1 /\ rw.pc = "done"

\* C35: two start_deploy requests for the same compose file never lead to
\* two Deploy runs for that file that are active at the same time.
C35_OneDeployPerTarget ==
  \A a, b \in workflows :
    ( /\ a.workflow = "DeployWorkflow" /\ b.workflow = "DeployWorkflow"
      /\ a.status = "running" /\ b.status = "running"
      /\ a.arg = b.arg ) => a = b

\* C36: the backup a Rollback run started by a Deploy run redeploys existed
\* before that Deploy run; it is never the copy of the deployed file that
\* the run's own backup step made.
C36_RollbackTargetPredatesRun ==
  (RollbackSpawned /\ Ran("Rollback", "deploy_compose")) =>
    /\ ~EndsWith(dw.backup_result, rw.backup_file)
    /\ rw.backup_file \in {OldBackup1, OldBackup2}

\* The backup step of the Deploy run wrote its copy
BackupSucceeded == Ran("Deploy", "backup_compose") /\ In(<<"B","a","c","k","u","p"," ","c","r","e","a","t","e","d",":"," ">>, dw.backup_result)

\* C37: the Rollback run searches the directory the backup step writes to:
\* once the backup step of a Deploy run has succeeded for a file, the
\* Rollback run for that file without a backup in its input does not end
\* with "No backup file found", whatever the path of the compose file.
C37_RollbackFindsBackup ==
  (BackupSucceeded /\ RollbackSpawned /\ rw.input_backup_file = <<>> /\ rw.pc = "done") =>
    /\ ~In(<<"N","o"," ","b","a","c","k","u","p"," ","f","i","l","e"," ","f","o","u","n","d">>, rw.result)
    /\ backup_dir(rw.current_file) = BACKUPS_DIR

\* The Rollback run ended with the ROLLBACK SUCCESSFUL report
RollbackSuccessful == rw.pc = "done" /\ StartsWith(rw.result, <<"R","O","L","L","B","A","C","K"," ","S","U","C","C","E","S","S","F","U","L">>)

\* C38: a Rollback run reports ROLLBACK SUCCESSFUL only if its deploy of
\* the backup succeeded and the verification, run against the deployed
\* backup, has no FAIL check.
C38_SuccessfulMeansDeployedAndVerified ==
  RollbackSuccessful =>
    /\ hist.rb_deploy_cmd = "ok"
    /\ Len(hist.rb_checks) = 8
    /\ ~AnyStatus(hist.rb_checks, FAIL)

\* A step of the loop that performed a health check
CheckPerformed == hm.pc = "check" /\ hm'.check_count = hm.check_count + 1

\* C39: at the sleep between two iterations of the Health Monitor Loop the
\* consecutive-failure counter is 0, 1 or 2 and the iteration count is
\* between 1 and 1440; a failing check increments the counter by exactly
\* 1, and nothing changes it but a failing check, a passing check (reset
\* to 0) and a diagnosis (reset to 0).
C39_CounterDiscipline ==
  /\ [](hm.pc = "sleep" => (hm.failure_count \in 0..2 /\ hm.check_count \in 1..max_checks))
  /\ [][(CheckPerformed /\ hm'.result.has_failures) => hm'.failure_count = hm.failure_count + 1]_vars
  /\ [][hm'.failure_count # hm.failure_count =>
          \/ CheckPerformed /\ hm'.result.has_failures /\ hm'.failure_count = hm.failure_count + 1
          \/ CheckPerformed /\ ~hm'.result.has_failures /\ hm'.failure_count = 0
          \/ hm.pc = "notify_diagnosis" /\ hm'.log[Len(hm'.log)].diagnosis_sent /\ hm'.failure_count = 0]_vars

\* The run is in the sleep of its last iteration with two failures counted
\* since a passing check reset the counter of an earlier streak.
C39_Witness ==
  /\ hm.pc = "sleep" /\ hm.check_count = max_checks /\ hm.failure_count = 2
  /\ hm.log[max_checks - 3].alert /\ ~hm.log[max_checks - 2].failing

====
